---- MODULE Spec2Model ----
(***************************************************************************)
(* Formula prefixing of openpyxl-spill (openpyxl/cell/formula_utils.py),   *)
(* the older add_function_prefix of openpyxl/cell/formula_prefix.py, and   *)
(* the cell writer of openpyxl/cell/_writer.py.                            *)
(*                                                                         *)
(* Four specifications: Spec (the calls of _add_function_prefix and of     *)
(* prepare_spill_formula on one formula), PrefixSpec (add_function_prefix  *)
(* of formula_prefix.py), LiteralsSpec (_protect_string_literals and       *)
(* _restore_string_literals) and WriterSpec (etree_write_cell and          *)
(* lxml_write_cell on the cells of a worksheet).                           *)
(*                                                                         *)
(* A formula text is a sequence of one-character strings.  Every function  *)
(* of formula_utils.py is an operator over such sequences, computed the    *)
(* way the Python code computes it: a regular expression is unfolded into  *)
(* its left-to-right scan, and a loop of the code is the repetition of an  *)
(* operator that performs one iteration on the record of the loop's local  *)
(* variables.  A call that never returns (a loop of the code that stops    *)
(* advancing) yields the value Hang.                                       *)
(***************************************************************************)
EXTENDS Integers, Sequences, FiniteSets, TLC

(***************************************************************************)
(* Characters and character classes (str.isalnum, \w, \s, \b).             *)
(***************************************************************************)
Upper == {"A","B","C","D","E","F","G","H","I","J","K","L","M",
          "N","O","P","Q","R","S","T","U","V","W","X","Y","Z"}

Lower == {"a","b","c","d","e","f","g","h","i","j","k","l","m",
          "n","o","p","q","r","s","t","u","v","w","x","y","z"}

Digit == {"0","1","2","3","4","5","6","7","8","9"}

Whitespace == {" "}

Quotes == {"\"", "'"}

IsAlnum(c) == c \in Upper \cup Lower \cup Digit

IsWordChar(c) == IsAlnum(c) \/ c = "_"

\* the value of a call that does not return
Hang == <<"HANG">>

IsHang(t) == t = Hang

(***************************************************************************)
(* Literal texts of the source.                                            *)
(***************************************************************************)
XLFN == <<"_","x","l","f","n",".">>

XLWS == <<"_","x","l","w","s",".">>

XLPM == <<"_","x","l","p","m",".">>

XLOP == <<"_","x","l","o","p",".">>

XLETA == <<"_","x","l","e","t","a",".">>

S_LAMBDA == <<"L","A","M","B","D","A">>

S_LET == <<"L","E","T">>

SORT == <<"S","O","R","T">>

SORTBY == <<"S","O","R","T","B","Y">>

FILTER == <<"F","I","L","T","E","R">>

UNIQUE == <<"U","N","I","Q","U","E">>

GROUPBY == <<"G","R","O","U","P","B","Y">>

PIVOTBY == <<"P","I","V","O","T","B","Y">>

TRO_ALL == <<"_","T","R","O","_","A","L","L">>

TRO_TRAILING == <<"_","T","R","O","_","T","R","A","I","L","I","N","G">>

TRO_LEADING == <<"_","T","R","O","_","L","E","A","D","I","N","G">>

\* EXCEL_NEW_FUNCTIONS without LAMBDA and LET: the names the formulas of
\* this model can contain (a name that does not occur in a text is left
\* alone by every substitution of the code)
TAGGED_FUNCTIONS == {UNIQUE, SORT, SORTBY, FILTER, GROUPBY, PIVOTBY,
                     TRO_ALL, TRO_TRAILING, TRO_LEADING}

EXCEL_NEW_FUNCTIONS == TAGGED_FUNCTIONS \cup {S_LAMBDA, S_LET}

(***************************************************************************)
(* Basic text operations (1-based positions).                              *)
(***************************************************************************)
\* text[i:] of Python, for a 1-based i
From(t, i) == SubSeq(t, i, Len(t))

\* text.startswith(p, i-1)
MatchAt(t, i, p) ==
    /\ i >= 1
    /\ i + Len(p) - 1 <= Len(t)
    /\ SubSeq(t, i, i + Len(p) - 1) = p

\* p in text
Contains(t, p) == \E i \in 1..(Len(t) - Len(p) + 1) : MatchAt(t, i, p)

\* the character before / at position i is a word character
WordAt(t, i) == i >= 1 /\ i <= Len(t) /\ IsWordChar(t[i])

\* \b between positions i-1 and i
Boundary(t, i) == WordAt(t, i - 1) # WordAt(t, i)

RECURSIVE Join(_, _)
\* sep.join(parts)
Join(parts, sep) ==
    IF Len(parts) = 0 THEN <<>>
    ELSE IF Len(parts) = 1 THEN parts[1]
    ELSE parts[1] \o sep \o Join(Tail(parts), sep)

RECURSIVE LStrip(_)
LStrip(t) ==
    IF Len(t) > 0 /\ t[1] \in Whitespace THEN LStrip(Tail(t)) ELSE t

RECURSIVE RStrip(_)
RStrip(t) ==
    IF Len(t) > 0 /\ t[Len(t)] \in Whitespace
    THEN RStrip(SubSeq(t, 1, Len(t) - 1)) ELSE t

\* str.strip()
Strip(t) == RStrip(LStrip(t))

RECURSIVE SkipSpaces(_, _)
\* the position after \s* matched from i
SkipSpaces(t, i) ==
    IF i <= Len(t) /\ t[i] \in Whitespace THEN SkipSpaces(t, i + 1) ELSE i

(***************************************************************************)
(* Loops: Iter16(Op, s) performs up to sixteen iterations of a loop whose  *)
(* single iteration is Op (Op leaves a finished state alone).              *)
(***************************************************************************)
Iter4(Op(_), s) == Op(Op(Op(Op(s))))

\* a local variable: Body with value for its parameter (a value that is
\* computed once and read several times)
With(value, Body(_)) == Body(value)

Iter16(Op(_), s) == Iter4(Op, Iter4(Op, Iter4(Op, Iter4(Op, s))))

\* one step of re.sub for a literal pattern pat, with \b before it when wb
\* and \b after it when wa, replaced by repl; s.i is the scan position
ReSubStep(t, pat, wb, wa, repl, s) ==
    IF s.i > Len(t) THEN s
    ELSE IF /\ MatchAt(t, s.i, pat)
            /\ (wb => Boundary(t, s.i))
            /\ (wa => Boundary(t, s.i + Len(pat)))
         THEN [i |-> s.i + Len(pat), result |-> s.result \o repl]
         ELSE [i |-> s.i + 1, result |-> Append(s.result, t[s.i])]

RECURSIVE ReSubLoop(_, _, _, _, _, _)
ReSubLoop(t, pat, wb, wa, repl, s) ==
    IF s.i > Len(t) THEN s
    ELSE ReSubLoop(t, pat, wb, wa, repl,
                   Iter16(LAMBDA x : ReSubStep(t, pat, wb, wa, repl, x), s))

\* re.sub(pattern, repl, t): all leftmost non-overlapping matches replaced
ReSub(t, pat, wb, wa, repl) ==
    IF ~Contains(t, pat) THEN t
    ELSE ReSubLoop(t, pat, wb, wa, repl, [i |-> 1, result |-> <<>>]).result

(***************************************************************************)
(* _convert_tro_notations: the special range notations .:. , :. and .:     *)
(***************************************************************************)
RECURSIVE RunEnd(_, _, _)
\* the position after the longest run of characters of class cls from p
RunEnd(t, p, cls) ==
    IF p <= Len(t) /\ t[p] \in cls THEN RunEnd(t, p + 1, cls) ELSE p

\* [A-Z]+ matched greedily at p: the position after it, 0 when it fails
Letters(t, p) ==
    With(RunEnd(t, p, Upper), LAMBDA u : IF u > p THEN u ELSE 0)

\* [0-9]+ at p
Digits(t, p) ==
    With(RunEnd(t, p, Digit), LAMBDA d : IF d > p THEN d ELSE 0)

\* \$ at p and then a match that ends at rest
Dollar(t, p, rest) ==
    IF p <= Len(t) /\ t[p] = "$" THEN rest ELSE 0

\* [A-Z]+[0-9]+ at p
LettersDigits(t, p) ==
    With(Letters(t, p), LAMBDA u : IF u = 0 THEN 0 ELSE Digits(t, u))

\* [A-Z]+\$[0-9]+ at p
LettersDollarDigits(t, p) ==
    With(Letters(t, p),
         LAMBDA u : IF u = 0 THEN 0 ELSE Dollar(t, u, Digits(t, u + 1)))

\* the eight alternatives of cell_pattern at p, in the order of the pattern
CellAlternatives(t, p) ==
    << LettersDigits(t, p),
       LettersDollarDigits(t, p),
       Dollar(t, p, LettersDigits(t, p + 1)),
       Dollar(t, p, LettersDollarDigits(t, p + 1)),
       Letters(t, p),
       Dollar(t, p, Letters(t, p + 1)),
       Digits(t, p),
       Dollar(t, p, Digits(t, p + 1)) >>

\* the first alternative of a list of match ends that matched, 0 when none
FirstMatch(alts) ==
    IF \E k \in 1..Len(alts) : alts[k] # 0
    THEN alts[CHOOSE k \in 1..Len(alts) :
                  alts[k] # 0 /\ \A h \in 1..(k - 1) : alts[h] = 0]
    ELSE 0

DOT_COLON_DOT == <<".", ":", ".">>

COLON_DOT == <<":", ".">>

DOT_COLON == <<".", ":">>

NoMatch == [ok |-> FALSE, s |-> 0, j |-> 0, n |-> <<>>, e |-> 0]

\* the notations in the order of the alternation (\.:\.|:\.|\.:)
NOTATIONS == <<DOT_COLON_DOT, COLON_DOT, DOT_COLON>>

\* notation n at j followed by cell_pattern: the end of the second endpoint,
\* 0 when it fails
TryNotation(t, j, n) ==
    IF MatchAt(t, j, n)
    THEN FirstMatch(CellAlternatives(t, j + Len(n))) ELSE 0

\* the least element of a non-empty set of numbers
Least(S) == CHOOSE k \in S : \A h \in S : k <= h

\* (\.:\.|:\.|\.:) at j followed by cell_pattern: the notation and the end
\* of the second endpoint, trying the notations in the order of the pattern
NotationAt(t, j) ==
    With([k \in 1..Len(NOTATIONS) |-> TryNotation(t, j, NOTATIONS[k])],
         LAMBDA ends :
           IF \E k \in DOMAIN ends : ends[k] # 0
           THEN [ok |-> TRUE, s |-> 0, j |-> j,
                 n |-> NOTATIONS[Least({k \in DOMAIN ends : ends[k] # 0})],
                 e |-> ends[Least({k \in DOMAIN ends : ends[k] # 0})]]
           ELSE NoMatch)

\* pattern matched at p: the first alternative of the first endpoint after
\* which a notation and a second endpoint follow
RangeMatchAt(t, p) ==
    With([k \in 1..8 |->
            With(CellAlternatives(t, p)[k],
                 LAMBDA e : IF e # 0 THEN NotationAt(t, e) ELSE NoMatch)],
         LAMBDA ms :
           IF \E k \in DOMAIN ms : ms[k].ok
           THEN ms[Least({k \in DOMAIN ms : ms[k].ok})]
           ELSE NoMatch)

\* the function a notation is converted to
TroFunction(n) ==
    IF n = DOT_COLON_DOT THEN TRO_ALL
    ELSE IF n = COLON_DOT THEN TRO_TRAILING
    ELSE TRO_LEADING

\* replace_notation: the text a match m that starts at i is replaced by
replace_notation(t, i, m) ==
    TroFunction(m.n) \o <<"(">> \o SubSeq(t, i, m.j - 1) \o <<":">>
    \o SubSeq(t, m.j + Len(m.n), m.e - 1) \o <<")">>

\* one step of re.sub(pattern, replace_notation, text)
SubNotationStep(t, s) ==
    IF s.i > Len(t) THEN s
    ELSE With(RangeMatchAt(t, s.i),
              LAMBDA m :
                IF m.ok
                THEN [i |-> m.e,
                      result |-> s.result \o replace_notation(t, s.i, m)]
                ELSE [i |-> s.i + 1, result |-> Append(s.result, t[s.i])])

RECURSIVE SubNotationLoop(_, _)
SubNotationLoop(t, s) ==
    IF s.i > Len(t) THEN s
    ELSE SubNotationLoop(t, Iter16(LAMBDA x : SubNotationStep(t, x), s))

\* sheet_pattern matched at p: ([A-Za-z0-9_]+!) and then pattern
SheetMatchAt(t, p) ==
    With(RunEnd(t, p, Upper \cup Lower \cup Digit \cup {"_"}),
         LAMBDA k :
           IF k > p /\ k <= Len(t) /\ t[k] = "!"
           THEN With(RangeMatchAt(t, k + 1),
                     LAMBDA m : IF m.ok THEN [m EXCEPT !.s = k + 1]
                                ELSE NoMatch)
           ELSE NoMatch)

\* replace_sheet_notation: the text a match m that starts at i is replaced by
replace_sheet_notation(t, i, m) ==
    LET sheet == SubSeq(t, i, m.s - 1) IN
    TroFunction(m.n) \o <<"(">>
    \o sheet \o SubSeq(t, m.s, m.j - 1) \o <<":">>
    \o sheet \o SubSeq(t, m.j + Len(m.n), m.e - 1) \o <<")">>

\* one step of re.sub(sheet_pattern, replace_sheet_notation, text)
SubSheetNotationStep(t, s) ==
    IF s.i > Len(t) THEN s
    ELSE With(SheetMatchAt(t, s.i),
              LAMBDA m :
                IF m.ok
                THEN [i |-> m.e,
                      result |-> s.result \o replace_sheet_notation(t, s.i, m)]
                ELSE [i |-> s.i + 1, result |-> Append(s.result, t[s.i])])

RECURSIVE SubSheetNotationLoop(_, _)
SubSheetNotationLoop(t, s) ==
    IF s.i > Len(t) THEN s
    ELSE SubSheetNotationLoop(t,
             Iter16(LAMBDA x : SubSheetNotationStep(t, x), s))

_convert_tro_notations(formula_text) ==
    LET result == SubSheetNotationLoop(formula_text,
                      [i |-> 1, result |-> <<>>]).result
    IN  SubNotationLoop(result, [i |-> 1, result |-> <<>>]).result

(***************************************************************************)
(* String-literal tracking shared by the scans of the source:              *)
(*   if char in ['"', "'"] and (i == 0 or text[i-1] != '\\'): ...          *)
(***************************************************************************)
None == ""

\* the quote at position i opens or closes a literal
QuoteAt(t, i) == t[i] \in Quotes /\ (i = 1 \/ t[i - 1] # "\\")

\* in_string after the character at position i
InStringAfter(t, i, in_string, quote_char) ==
    IF QuoteAt(t, i)
    THEN IF ~in_string THEN TRUE
         ELSE IF t[i] = quote_char THEN FALSE ELSE in_string
    ELSE in_string

\* quote_char after the character at position i
QuoteCharAfter(t, i, in_string, quote_char) ==
    IF QuoteAt(t, i)
    THEN IF ~in_string THEN t[i]
         ELSE IF t[i] = quote_char THEN None ELSE quote_char
    ELSE quote_char

(***************************************************************************)
(* _replace_var_refs_outside_strings                                       *)
(***************************************************************************)
\* the first name of var_names that matches at position i as a whole token
\* (its index, 0 when none)
VarNameAt(text, var_names, i) ==
    LET hit(k) ==
          LET n == Len(var_names[k]) IN
          /\ SubSeq(text, i, IF i + n - 1 <= Len(text)
                             THEN i + n - 1 ELSE Len(text)) = var_names[k]
          /\ (i = 1 \/ (~IsAlnum(text[i - 1]) /\ text[i - 1] # "_"))
          /\ (i + n > Len(text)
                \/ (~IsAlnum(text[i + n]) /\ text[i + n] # "_"))
    IN  With({k \in 1..Len(var_names) : hit(k)},
             LAMBDA hits : IF hits = {} THEN 0 ELSE Least(hits))

\* one iteration of the while loop of _replace_var_refs_outside_strings
ReplaceVarRefsStep(text, var_names, s) ==
    IF s.i > Len(text) \/ s.hang THEN s
    ELSE
      LET char == text[s.i] IN
      IF QuoteAt(text, s.i) /\ (~s.in_string \/ char = s.quote_char)
      THEN [s EXCEPT !.i = s.i + 1,
                     !.in_string  = ~s.in_string,
                     !.quote_char = IF s.in_string THEN None ELSE char,
                     !.result = Append(s.result, char)]
      ELSE IF s.in_string
      THEN [s EXCEPT !.i = s.i + 1, !.result = Append(s.result, char)]
      ELSE
        With(VarNameAt(text, var_names, s.i),
             LAMBDA k :
               IF k = 0
               THEN [s EXCEPT !.i = s.i + 1,
                              !.result = Append(s.result, char)]
               ELSE IF Len(var_names[k]) = 0
               THEN [s EXCEPT !.hang = TRUE]  \* i += 0: appends for ever
               ELSE [s EXCEPT !.i = s.i + Len(var_names[k]),
                              !.result = s.result \o XLPM \o var_names[k]])

RECURSIVE ReplaceVarRefsLoop(_, _, _)
ReplaceVarRefsLoop(text, var_names, s) ==
    IF s.i > Len(text) \/ s.hang THEN s
    ELSE ReplaceVarRefsLoop(text, var_names,
             Iter16(LAMBDA x : ReplaceVarRefsStep(text, var_names, x), s))

_replace_var_refs_outside_strings(text, var_names) ==
    IF Len(var_names) = 0 THEN text
    ELSE With(ReplaceVarRefsLoop(text, var_names,
                  [i |-> 1, in_string |-> FALSE, quote_char |-> None,
                   result |-> <<>>, hang |-> FALSE]),
              LAMBDA s : IF s.hang THEN Hang ELSE s.result)

(***************************************************************************)
(* The top-level comma split of _add_xlpm_to_lambda_params and of          *)
(* _add_xlpm_to_let_vars (the same loop in both).                          *)
(***************************************************************************)
\* the depth after char, outside string literals
DepthAfter(depth, char, open, close) ==
    IF char = open THEN depth + 1
    ELSE IF char = close THEN depth - 1 ELSE depth

\* one iteration of: for i, char in enumerate(content)
SplitStep(content, s) ==
    IF s.i > Len(content) THEN s
    ELSE
      LET char == content[s.i]
          ins  == InStringAfter(content, s.i, s.in_string, s.quote_char)
          qc   == QuoteCharAfter(content, s.i, s.in_string, s.quote_char)
      IN
      IF ~ins /\ char = "," /\ s.paren_depth = 0 /\ s.brace_depth = 0
      THEN [s EXCEPT !.i = s.i + 1, !.in_string = ins, !.quote_char = qc,
                     !.parts = Append(s.parts, Strip(s.current)),
                     !.current = <<>>]
      ELSE [s EXCEPT !.i = s.i + 1, !.in_string = ins, !.quote_char = qc,
                     !.paren_depth = IF ins THEN s.paren_depth
                         ELSE DepthAfter(s.paren_depth, char, "(", ")"),
                     !.brace_depth = IF ins THEN s.brace_depth
                         ELSE DepthAfter(s.brace_depth, char, "{", "}"),
                     !.current = Append(s.current, char)]

RECURSIVE SplitLoop(_, _)
SplitLoop(content, s) ==
    IF s.i > Len(content) THEN s
    ELSE SplitLoop(content, Iter16(LAMBDA x : SplitStep(content, x), s))

\* parts after the loop and the final  if current: parts.append(...)
SplitParts(content) ==
    With(SplitLoop(content,
             [i |-> 1, parts |-> <<>>, current |-> <<>>,
              paren_depth |-> 0, brace_depth |-> 0,
              in_string |-> FALSE, quote_char |-> None]),
         LAMBDA s : IF Len(s.current) > 0
                    THEN Append(s.parts, Strip(s.current))
                    ELSE s.parts)

(***************************************************************************)
(* _add_xlpm_to_lambda_params                                              *)
(***************************************************************************)
\* the last position of character c in t, 0 when there is none
LastIndexOf(t, c) ==
    LET at == {i \in 1..Len(t) : t[i] = c} IN
    IF at = {} THEN 0 ELSE CHOOSE i \in at : \A j \in at : j <= i

\* LAMBDA\s*\( at position i: the position of the parenthesis, 0 otherwise
LambdaHeadAt(t, i) ==
    IF MatchAt(t, i, S_LAMBDA)
    THEN LET q == SkipSpaces(t, i + Len(S_LAMBDA)) IN
         IF q <= Len(t) /\ t[q] = "(" THEN q ELSE 0
    ELSE 0

\* re.match(r'(.*?LAMBDA\s*\()(.+)(\))', lambda_expr): the position of the
\* parenthesis that ends group 1 (the first LAMBDA\s*\( after which at least
\* one character and a closing parenthesis follow), 0 when nothing matches
LambdaMatch(lambda_expr) ==
    With({i \in 1..Len(lambda_expr) :
             /\ LambdaHeadAt(lambda_expr, i) # 0
             /\ LastIndexOf(lambda_expr, ")")
                   >= LambdaHeadAt(lambda_expr, i) + 2},
         LAMBDA heads : IF heads = {} THEN 0
                        ELSE LambdaHeadAt(lambda_expr, Least(heads)))

\* param_str.startswith('[') and param_str.endswith(']')
IsOptional(param_str) ==
    Len(param_str) > 0 /\ param_str[1] = "["
                       /\ param_str[Len(param_str)] = "]"

\* one parameter of the list: its name
ParamName(param) ==
    LET param_str == Strip(param) IN
    IF IsOptional(param_str)
    THEN Strip(SubSeq(param_str, 2, Len(param_str) - 1))
    ELSE param_str

\* ProcessedParam without the case of the optional parameter
ProcessedParamAlwaysXlpm(param) == XLPM \o ParamName(param)

\* one parameter of the list as it is written back
ProcessedParam(param) ==
    IF IsOptional(Strip(param)) THEN XLOP \o ParamName(param)
    ELSE XLPM \o ParamName(param)

RECURSIVE PrefixCalls(_, _)
\* for func_name in EXCEL_NEW_FUNCTIONS (LAMBDA and LET skipped):
\*     re.sub(r'\b' + func_name + r'\(', '_xlfn.' + func_name + '(', expr)
\* each substitution inserts '_xlfn.' before its own name only, so that the
\* order of the iteration does not show in the result
PrefixCalls(expr, funcs) ==
    IF funcs = {} THEN expr
    ELSE LET f == CHOOSE g \in funcs : TRUE IN
         PrefixCalls(ReSub(expr, f \o <<"(">>, TRUE, FALSE,
                           XLFN \o f \o <<"(">>),
                     funcs \ {f})

_add_xlpm_to_lambda_params(lambda_expr) ==
    With(LambdaMatch(lambda_expr), LAMBDA q :
      IF q = 0 THEN lambda_expr
      ELSE
        \* prefix, content = match.group(1), match.group(2)
        With(SplitParts(SubSeq(lambda_expr, q + 1,
                               LastIndexOf(lambda_expr, ")") - 1)),
             LAMBDA parts :
          IF Len(parts) < 2 THEN lambda_expr
          ELSE
            \* params, expression = parts[:-1], parts[-1]
            With(_replace_var_refs_outside_strings(
                     parts[Len(parts)],
                     [k \in 1..(Len(parts) - 1) |-> ParamName(parts[k])]),
                 LAMBDA replaced :
              IF IsHang(replaced) THEN Hang
              ELSE
                LET prefix == SubSeq(lambda_expr, 1, q)
                    processed_params == [k \in 1..(Len(parts) - 1) |->
                                            ProcessedParam(parts[k])]
                    new_prefix ==
                       IF Contains(prefix, XLFN \o S_LAMBDA) THEN prefix
                       ELSE ReSub(prefix, S_LAMBDA, FALSE, FALSE,
                                  XLFN \o S_LAMBDA)
                IN  new_prefix
                    \o Join(Append(processed_params,
                                   PrefixCalls(replaced, TAGGED_FUNCTIONS)),
                            <<",">>)
                    \o <<")">>)))

(***************************************************************************)
(* _add_xlpm_to_let_vars                                                   *)
(***************************************************************************)
XLFN_LET == XLFN \o S_LET

\* _xlfn\.LET\s*\( at position i: the position of the parenthesis, else 0
LetHeadAt(t, i) ==
    IF MatchAt(t, i, XLFN_LET)
    THEN LET q == SkipSpaces(t, i + Len(XLFN_LET)) IN
         IF q <= Len(t) /\ t[q] = "(" THEN q ELSE 0
    ELSE 0

RECURSIVE LetBindingsUnscoped(_, _, _)
\* LetBindings with every definition rewritten for the names of all
\* bindings instead of the names collected before it
LetBindingsUnscoped(parts, k, var_names) ==
    IF 2 * k > Len(parts) - 1 THEN <<>>
    ELSE
      With(IF Len(parts[2 * k]) > 0
           THEN <<_replace_var_refs_outside_strings(
                      parts[2 * k],
                      [j \in 1..((Len(parts) - 1) \div 2) |->
                          Strip(parts[2 * j - 1])])>>
           ELSE <<>>,
           LAMBDA value :
        With(LetBindingsUnscoped(parts, k + 1, var_names), LAMBDA rest :
          IF (Len(value) > 0 /\ IsHang(value[1])) \/ IsHang(rest) THEN Hang
          ELSE <<XLPM \o Strip(parts[2 * k - 1])>> \o value \o rest))

RECURSIVE LetBindings(_, _, _)
\* the loop over the definitions: processed_parts of the pairs k, k+1, ...
\* given var_names, the names collected before pair k
LetBindings(parts, k, var_names) ==
    IF 2 * k > Len(parts) - 1 THEN <<>>
    ELSE
      LET var_name  == Strip(parts[2 * k - 1])
          var_value == parts[2 * k]
      IN
      \* if var_value: processed_parts.append(...)
      With(IF Len(var_value) > 0
           THEN <<_replace_var_refs_outside_strings(var_value, var_names)>>
           ELSE <<>>,
           LAMBDA value :
        With(LetBindings(parts, k + 1, Append(var_names, var_name)),
             LAMBDA rest :
          IF (Len(value) > 0 /\ IsHang(value[1])) \/ IsHang(rest) THEN Hang
          ELSE <<XLPM \o var_name>> \o value \o rest))

\* LetNames without the name of the last definition
LetNamesButLast(parts) ==
    [k \in 1..(((Len(parts) - 1) \div 2) - 1) |-> Strip(parts[2 * k - 1])]

\* the names of all definitions of the LET
LetNames(parts) ==
    [k \in 1..((Len(parts) - 1) \div 2) |-> Strip(parts[2 * k - 1])]

\* a LET whose parts are counted as short only, whatever their parity
MalformedLetShortOnly(parts) == Len(parts) < 3

\* if len(parts) < 3 or len(parts) % 2 == 0: return let_expr
MalformedLet(parts) == Len(parts) < 3 \/ Len(parts) % 2 = 0

_add_xlpm_to_let_vars(let_expr) ==
    With(LetHeadAt(let_expr, 1), LAMBDA q :
      IF q = 0 \/ Len(let_expr) < q + 2 \/ let_expr[Len(let_expr)] # ")"
      THEN let_expr
      ELSE
        \* prefix, content = match.group(1), match.group(2)
        With(SplitParts(SubSeq(let_expr, q + 1, Len(let_expr) - 1)),
             LAMBDA parts :
          IF MalformedLet(parts) THEN let_expr
          ELSE
            With(LetBindings(parts, 1, <<>>), LAMBDA bindings :
              With(_replace_var_refs_outside_strings(
                       parts[Len(parts)], LetNames(parts)),
                   LAMBDA final_expr :
                IF IsHang(bindings) \/ IsHang(final_expr) THEN Hang
                ELSE SubSeq(let_expr, 1, q)
                     \o Join(Append(bindings, final_expr), <<",">>)
                     \o <<")">>))))

(***************************************************************************)
(* _process_lambda_function                                                *)
(***************************************************************************)
\* one iteration of the search for the closing parenthesis of a LAMBDA:
\*     while pos < len(processed_text) and paren_count > 0
LambdaCloseStep(t, s) ==
    IF s.pos > Len(t) \/ s.paren_count <= 0 THEN s
    ELSE
      LET char == t[s.pos]
          ins  == InStringAfter(t, s.pos, s.in_string, s.quote_char)
          qc   == QuoteCharAfter(t, s.pos, s.in_string, s.quote_char)
      IN  [pos |-> s.pos + 1, in_string |-> ins, quote_char |-> qc,
           paren_count |-> IF ins THEN s.paren_count
                           ELSE DepthAfter(s.paren_count, char, "(", ")")]

RECURSIVE LambdaCloseLoop(_, _)
LambdaCloseLoop(t, s) ==
    IF s.pos > Len(t) \/ s.paren_count <= 0 THEN s
    ELSE LambdaCloseLoop(t, Iter16(LAMBDA x : LambdaCloseStep(t, x), s))

\* LambdaEnd without the search for the closing parenthesis: the LAMBDA is
\* taken to reach to the end of the text
LambdaEndOfText(t, start) == Len(t) + 1

\* for the match of (?<!_xlfn\.)LAMBDA\s*\( at start: the position after
\* its closing parenthesis, 0 when the text ends first
LambdaEnd(t, start) ==
    With(LambdaCloseLoop(t, [pos |-> LambdaHeadAt(t, start) + 1,
                             paren_count |-> 1,
                             in_string |-> FALSE, quote_char |-> None]),
         LAMBDA s : IF s.paren_count = 0 THEN s.pos ELSE 0)

\* lambda_positions: the starts of the unprefixed LAMBDA( that are closed
lambda_positions(t) ==
    {i \in 1..Len(t) : /\ LambdaHeadAt(t, i) # 0
                       /\ ~MatchAt(t, i - Len(XLFN), XLFN)
                       /\ LambdaEnd(t, i) # 0}

\* lambda_positions.sort(key=length)[0]: the shortest, the first of equals
InnermostLambda(t) ==
    With([i \in lambda_positions(t) |-> LambdaEnd(t, i) - i],
         LAMBDA length :
           CHOOSE i \in DOMAIN length :
               \A j \in DOMAIN length :
                   \/ length[i] < length[j]
                   \/ (length[i] = length[j] /\ i <= j))

RECURSIVE LambdaLoop(_)
\* while True: ... (the loop does not end when an iteration leaves
\* processed_text as it was: the same LAMBDA is found again)
LambdaLoop(processed_text) ==
    IF lambda_positions(processed_text) = {} THEN processed_text
    ELSE
      With(InnermostLambda(processed_text), LAMBDA start :
        With(LambdaEnd(processed_text, start), LAMBDA end :
          With(_add_xlpm_to_lambda_params(
                   SubSeq(processed_text, start, end - 1)),
               LAMBDA processed_expr :
            IF IsHang(processed_expr) THEN Hang
            ELSE With(SubSeq(processed_text, 1, start - 1)
                         \o processed_expr \o From(processed_text, end),
                      LAMBDA next : IF next = processed_text THEN Hang
                                    ELSE LambdaLoop(next)))))

\* one iteration of a search for a closing parenthesis that counts every
\* parenthesis:  while pos < len(result) and paren_count > 0
ParenCloseStep(t, s) ==
    IF s.pos > Len(t) \/ s.paren_count <= 0 THEN s
    ELSE [pos |-> s.pos + 1,
          paren_count |-> DepthAfter(s.paren_count, t[s.pos], "(", ")")]

RECURSIVE ParenCloseLoop(_, _)
ParenCloseLoop(t, s) ==
    IF s.pos > Len(t) \/ s.paren_count <= 0 THEN s
    ELSE ParenCloseLoop(t, Iter16(LAMBDA x : ParenCloseStep(t, x), s))

\* the position after the parenthesis that closes the one open before pos,
\* 0 when the text ends first
ParenEnd(t, pos) ==
    With(ParenCloseLoop(t, [pos |-> pos, paren_count |-> 1]),
         LAMBDA s : IF s.paren_count = 0 THEN s.pos ELSE 0)

\* re.search(head, t[start:]) for a head  name\s*\( : the position of the
\* first match at or after start, 0 when there is none
SearchHead(t, start, HeadAt(_, _)) ==
    With({i \in start..Len(t) : HeadAt(t, i) # 0},
         LAMBDA at : IF at = {} THEN 0 ELSE Least(at))

RECURSIVE LetLoop(_, _)
\* the while loop of _process_let_variables
LetLoop(result, start) ==
    With(SearchHead(result, start, LetHeadAt), LAMBDA let_start :
      IF let_start = 0 THEN result
      ELSE
        LET let_end == let_start + Len(XLFN_LET) + 1 IN \* len('_xlfn.LET(')
        With(ParenEnd(result, let_end), LAMBDA pos :
          IF pos # 0
          THEN With(_add_xlpm_to_let_vars(
                        SubSeq(result, let_start, pos - 1)),
                    LAMBDA processed :
                 IF IsHang(processed) THEN Hang
                 ELSE LetLoop(SubSeq(result, 1, let_start - 1)
                                 \o processed \o From(result, pos),
                              let_start + Len(processed)))
          ELSE LetLoop(result, let_end)))

_process_let_variables(formula_text) == LetLoop(formula_text, 1)

_process_lambda_function(formula_text) ==
    With(LambdaLoop(formula_text), LAMBDA processed_text :
      IF IsHang(processed_text) THEN Hang
      ELSE _process_let_variables(
               ReSub(processed_text, S_LET, TRUE, TRUE, XLFN_LET)))

(***************************************************************************)
(* _find_argument_positions and _add_xleta_to_aggregate_functions          *)
(***************************************************************************)
XLFN_GROUPBY == XLFN \o GROUPBY

XLFN_PIVOTBY == XLFN \o PIVOTBY

XLFN_LAMBDA == XLFN \o S_LAMBDA

\* AGGREGATE_ARG_POSITIONS, in the order of the dictionary
AGGREGATE_ARG_POSITIONS ==
    << [func_name |-> GROUPBY, target_arg_pos |-> 3],
       [func_name |-> PIVOTBY, target_arg_pos |-> 4] >>

\* one iteration of: for i, char in enumerate(text); an argument is the
\* pair of its first and last position
ArgPositionsStep(text, s) ==
    IF s.i > Len(text) THEN s
    ELSE
      LET char == text[s.i]
          ins  == InStringAfter(text, s.i, s.in_string, s.quote_char)
          qc   == QuoteCharAfter(text, s.i, s.in_string, s.quote_char)
      IN
      IF ~ins /\ char = "," /\ s.paren_depth = 0 /\ s.brace_depth = 0
      THEN [s EXCEPT !.i = s.i + 1, !.in_string = ins, !.quote_char = qc,
                     !.positions = Append(s.positions,
                                          <<s.current_start, s.i - 1>>),
                     !.current_start = s.i + 1]
      ELSE [s EXCEPT !.i = s.i + 1, !.in_string = ins, !.quote_char = qc,
                     !.paren_depth = IF ins THEN s.paren_depth
                         ELSE DepthAfter(s.paren_depth, char, "(", ")"),
                     !.brace_depth = IF ins THEN s.brace_depth
                         ELSE DepthAfter(s.brace_depth, char, "{", "}")]

RECURSIVE ArgPositionsLoop(_, _)
ArgPositionsLoop(text, s) ==
    IF s.i > Len(text) THEN s
    ELSE ArgPositionsLoop(text,
             Iter16(LAMBDA x : ArgPositionsStep(text, x), s))

_find_argument_positions(text) ==
    With(ArgPositionsLoop(text,
             [i |-> 1, positions |-> <<>>, current_start |-> 1,
              paren_depth |-> 0, brace_depth |-> 0,
              in_string |-> FALSE, quote_char |-> None]),
         LAMBDA s : IF s.current_start <= Len(text)
                    THEN Append(s.positions, <<s.current_start, Len(text)>>)
                    ELSE s.positions)

\* name\s*\( at position i: the position of the parenthesis, else 0
CallHeadAt(t, i, name) ==
    IF MatchAt(t, i, name)
    THEN LET q == SkipSpaces(t, i + Len(name)) IN
         IF q <= Len(t) /\ t[q] = "(" THEN q ELSE 0
    ELSE 0

\* re.match(r'\s*_xlfn\.LAMBDA\s*\(', target_arg)
IsLambdaArg(target_arg) ==
    CallHeadAt(target_arg, SkipSpaces(target_arg, 1), XLFN_LAMBDA) # 0

\* re.match(r'^(\s*)((?:_xlfn\.)?[A-Z]+)(\s*(?:\(.*\))?\s*)$', target_arg):
\* the positions where group 2 starts (a), where the name starts (b) and
\* where group 3 starts (c); ok tells whether the argument matches
FuncMatch(target_arg) ==
    With(SkipSpaces(target_arg, 1), LAMBDA a :
      With(IF MatchAt(target_arg, a, XLFN) THEN a + Len(XLFN) ELSE a,
           LAMBDA b :
        With(Letters(target_arg, b), LAMBDA c :
          LET r == SkipSpaces(target_arg, c)
              e == Len(RStrip(target_arg))
          IN  [ok |-> /\ c # 0
                      /\ \/ r > Len(target_arg)
                         \/ /\ target_arg[r] = "("
                            /\ e > r
                            /\ target_arg[e] = ")",
               a |-> a, b |-> b, c |-> c])))

\* new_arg: the target argument with '_xleta.' before its function name
XletaArg(target_arg) ==
    With(FuncMatch(target_arg), LAMBDA m :
      SubSeq(target_arg, 1, m.a - 1) \o XLETA
      \o SubSeq(target_arg, m.b, m.c - 1) \o From(target_arg, m.c))

RECURSIVE XletaLoop(_, _, _, _)
\* the while loop for one function: head is '_xlfn.' + func_name and pos
\* the position the search goes on from
XletaLoop(result, pos, head, target_arg_pos) ==
    With(SearchHead(result, pos, LAMBDA t, i : CallHeadAt(t, i, head)),
         LAMBDA func_start :
      IF func_start = 0 THEN result
      ELSE
        With(CallHeadAt(result, func_start, head), LAMBDA q :
          With(ParenEnd(result, q + 1), LAMBDA end :
            With(_find_argument_positions(SubSeq(result, q + 1, end - 2)),
                 LAMBDA arg_positions :
              With(IF end # 0 /\ Len(arg_positions) >= target_arg_pos
                   THEN arg_positions[target_arg_pos] ELSE <<1, 0>>,
                   LAMBDA arg :
                With(SubSeq(result, q + arg[1], q + arg[2]),
                     LAMBDA target_arg :
                  IF /\ end # 0
                     /\ Len(arg_positions) >= target_arg_pos
                     /\ ~IsLambdaArg(target_arg)
                     /\ FuncMatch(target_arg).ok
                     /\ ~Contains(target_arg, XLETA)
                  THEN With(XletaArg(target_arg), LAMBDA new_arg :
                         XletaLoop(SubSeq(result, 1, q + arg[1] - 1)
                                      \o new_arg
                                      \o From(result, q + arg[2] + 1),
                                   q + arg[1] + Len(new_arg), head,
                                   target_arg_pos))
                  ELSE XletaLoop(result, q + 1, head, target_arg_pos)))))))

RECURSIVE XletaAll(_, _)
\* for func_name, target_arg_pos in AGGREGATE_ARG_POSITIONS.items()
XletaAll(result, k) ==
    IF k > Len(AGGREGATE_ARG_POSITIONS) THEN result
    ELSE XletaAll(XletaLoop(result, 1,
                            XLFN \o AGGREGATE_ARG_POSITIONS[k].func_name,
                            AGGREGATE_ARG_POSITIONS[k].target_arg_pos),
                  k + 1)

_add_xleta_to_aggregate_functions(formula_text) == XletaAll(formula_text, 1)

(***************************************************************************)
(* _add_function_prefix.  order is the order in which the for loop visits  *)
(* the set EXCEL_NEW_FUNCTIONS (LAMBDA and LET, which it skips, left out). *)
(***************************************************************************)
\* one iteration of: for func in EXCEL_NEW_FUNCTIONS
PrefixFunction(formula_without_eq, func) ==
    IF \/ Contains(formula_without_eq, XLFN \o func)
       \/ Contains(formula_without_eq, XLWS \o func)
    THEN formula_without_eq
    ELSE ReSub(formula_without_eq, func, TRUE, TRUE, XLFN \o func)

RECURSIVE PrefixFunctions(_, _)
PrefixFunctions(formula_without_eq, order) ==
    IF Len(order) = 0 THEN formula_without_eq
    ELSE PrefixFunctions(PrefixFunction(formula_without_eq, Head(order)),
                         Tail(order))

\* the special case of SORT and FILTER
PrefixXlws(formula_without_eq, func) ==
    IF Contains(formula_without_eq, XLFN \o XLWS \o func)
    THEN formula_without_eq
    ELSE ReSub(formula_without_eq, XLFN \o func, FALSE, TRUE,
               XLFN \o XLWS \o func)

_add_function_prefix(formula_text, order) ==
    IF Len(formula_text) = 0 \/ formula_text[1] # "=" THEN formula_text
    ELSE
      With(_process_lambda_function(
               _convert_tro_notations(Tail(formula_text))),
           LAMBDA processed :
        IF IsHang(processed) THEN Hang
        ELSE <<"=">> \o _add_xleta_to_aggregate_functions(
                 PrefixXlws(PrefixXlws(PrefixFunctions(processed, order),
                                       SORT), FILTER)))

(***************************************************************************)
(* prepare_spill_formula (called with a string)                            *)
(***************************************************************************)
\* the attribute dictionary {}: neither 't' nor 'ref' is set
NoAttributes == [t |-> "", ref |-> <<>>]

\* a range attribute that is None
NoRange == <<>>

\* 'LAMBDA' in formula_text or 'LET' in formula_text
HasLambdaOrLet(formula_text) ==
    Contains(formula_text, S_LAMBDA) \/ Contains(formula_text, S_LET)

prepare_spill_formula(formula_text, cell, order) ==
    With(_add_function_prefix(formula_text, order), LAMBDA prefixed :
      IF IsHang(prefixed) THEN [text |-> Hang, attrs |-> NoAttributes]
      ELSE
        LET text == IF Len(prefixed) > 0 /\ prefixed[1] = "="
                    THEN prefixed ELSE <<"=">> \o prefixed
        IN
        IF cell._is_spill
        THEN [text |-> text,
              attrs |-> [t |-> "array",
                         ref |-> IF cell._spill_range # NoRange
                                 THEN cell._spill_range
                                 ELSE cell.coordinate]]
        ELSE IF HasLambdaOrLet(text)
        THEN [text |-> text,
              attrs |-> [t |-> "array", ref |-> cell.coordinate]]
        ELSE [text |-> text, attrs |-> NoAttributes])

(***************************************************************************)
(* openpyxl/cell/formula_prefix.py: add_function_prefix.  The module has   *)
(* its own registry EXCEL_NEW_FUNCTIONS and its own copies of              *)
(* _process_lambda_function and of the functions that one calls; the       *)
(* copies differ from those of formula_utils.py in the registry they       *)
(* iterate.  add_function_prefix converts no range notation and marks no   *)
(* aggregate argument.                                                     *)
(***************************************************************************)
TRIMRANGE == <<"T","R","I","M","R","A","N","G","E">>

SEQUENCE == <<"S","E","Q","U","E","N","C","E">>

\* EXCEL_NEW_FUNCTIONS of formula_prefix.py without LAMBDA and LET: the
\* names of that set the formulas of this model can contain (neither
\* TRIMRANGE nor GROUPBY, PIVOTBY or a _TRO_ name is in the set)
FORMULA_PREFIX_FUNCTIONS == {UNIQUE, SORT, SORTBY, FILTER, SEQUENCE}

\* _add_xlpm_to_lambda_params of formula_prefix.py
formula_prefix_add_xlpm_to_lambda_params(lambda_expr) ==
    With(LambdaMatch(lambda_expr), LAMBDA q :
      IF q = 0 THEN lambda_expr
      ELSE
        With(SplitParts(SubSeq(lambda_expr, q + 1,
                               LastIndexOf(lambda_expr, ")") - 1)),
             LAMBDA parts :
          IF Len(parts) < 2 THEN lambda_expr
          ELSE
            With(_replace_var_refs_outside_strings(
                     parts[Len(parts)],
                     [k \in 1..(Len(parts) - 1) |-> ParamName(parts[k])]),
                 LAMBDA replaced :
              IF IsHang(replaced) THEN Hang
              ELSE
                LET prefix == SubSeq(lambda_expr, 1, q)
                    processed_params == [k \in 1..(Len(parts) - 1) |->
                                            ProcessedParam(parts[k])]
                    new_prefix ==
                       IF Contains(prefix, XLFN \o S_LAMBDA) THEN prefix
                       ELSE ReSub(prefix, S_LAMBDA, FALSE, FALSE,
                                  XLFN \o S_LAMBDA)
                IN  new_prefix
                    \o Join(Append(processed_params,
                                   PrefixCalls(replaced,
                                               FORMULA_PREFIX_FUNCTIONS)),
                            <<",">>)
                    \o <<")">>)))

RECURSIVE FormulaPrefixLambdaLoop(_)
\* the loop  while True  of _process_lambda_function of formula_prefix.py
FormulaPrefixLambdaLoop(processed_text) ==
    IF lambda_positions(processed_text) = {} THEN processed_text
    ELSE
      With(InnermostLambda(processed_text), LAMBDA start :
        With(LambdaEnd(processed_text, start), LAMBDA end :
          With(formula_prefix_add_xlpm_to_lambda_params(
                   SubSeq(processed_text, start, end - 1)),
               LAMBDA processed_expr :
            IF IsHang(processed_expr) THEN Hang
            ELSE With(SubSeq(processed_text, 1, start - 1)
                         \o processed_expr \o From(processed_text, end),
                      LAMBDA next : IF next = processed_text THEN Hang
                                    ELSE FormulaPrefixLambdaLoop(next)))))

\* _process_lambda_function of formula_prefix.py
formula_prefix_process_lambda_function(formula_text) ==
    With(FormulaPrefixLambdaLoop(formula_text), LAMBDA processed_text :
      IF IsHang(processed_text) THEN Hang
      ELSE _process_let_variables(
               ReSub(processed_text, S_LET, TRUE, TRUE, XLFN_LET)))

\* add_function_prefix of formula_prefix.py; order is the order in which the
\* set EXCEL_NEW_FUNCTIONS of that module is iterated
add_function_prefix(formula_text, order) ==
    IF Len(formula_text) = 0 \/ formula_text[1] # "=" THEN formula_text
    ELSE
      With(formula_prefix_process_lambda_function(Tail(formula_text)),
           LAMBDA processed :
        IF IsHang(processed) THEN Hang
        ELSE <<"=">> \o PrefixXlws(PrefixXlws(PrefixFunctions(processed,
                                                              order),
                                              SORT), FILTER))

(***************************************************************************)
(* _protect_string_literals and _restore_string_literals                   *)
(***************************************************************************)
RECURSIVE Decimal(_)
\* str(n) of a natural number, as the f-string writes len(literals) and i
Decimal(n) ==
    LET digit == <<"0", "1", "2", "3", "4", "5", "6", "7", "8", "9">>
    IN  IF n < 10 THEN <<digit[n + 1]>>
        ELSE Append(Decimal(n \div 10), digit[(n % 10) + 1])

\* f'__ARRAY_{n}__'
ArrayPlaceholder(n) ==
    <<"_", "_", "A", "R", "R", "A", "Y", "_">> \o Decimal(n) \o <<"_", "_">>

\* f'__STRING_{n}__'
StringPlaceholder(n) ==
    <<"_", "_", "S", "T", "R", "I", "N", "G", "_">> \o Decimal(n)
        \o <<"_", "_">>

\* the first position at or after from where text has the character c, 0
\* when there is none
IndexFrom(text, c, from) ==
    With({i \in from..Len(text) : text[i] = c},
         LAMBDA at : IF at = {} THEN 0 ELSE Least(at))

RECURSIVE LiteralMatches(_, _, _, _)
\* list(re.finditer(open [^close]* close, text)) from position from on: the
\* matches <<start, end>> from left to right, none of them overlapping
LiteralMatches(text, open, close, from) ==
    With(IndexFrom(text, open, from), LAMBDA start :
      IF start = 0 THEN <<>>
      ELSE With(IndexFrom(text, close, start + 1), LAMBDA end :
             IF end = 0 THEN <<>>
             ELSE <<<<start, end>>>>
                  \o LiteralMatches(text, open, close, end + 1)))

RECURSIVE ProtectMatches(_, _, _, _)
\* for match in reversed(matches): the k-th match and those before it;
\* s holds protected and literals.  tag is 'A' for the array loop and 'S'
\* for the string loop
ProtectMatches(matches, k, tag, s) ==
    IF k = 0 THEN s
    ELSE
      LET start == matches[k][1]
          end   == matches[k][2]
          placeholder == IF tag = "A"
                         THEN ArrayPlaceholder(Len(s.literals))
                         ELSE StringPlaceholder(Len(s.literals))
      IN  ProtectMatches(matches, k - 1, tag,
              [protected |-> SubSeq(s.protected, 1, start - 1)
                               \o placeholder \o From(s.protected, end + 1),
               \* literals.insert(0, content)
               literals  |-> <<SubSeq(s.protected, start, end)>>
                               \o s.literals])

\* returns protected and literals
_protect_string_literals(text) ==
    With(LiteralMatches(text, "{", "}", 1), LAMBDA array_matches :
      With(ProtectMatches(array_matches, Len(array_matches), "A",
                          [protected |-> text, literals |-> <<>>]),
           LAMBDA arrays :
        With(LiteralMatches(arrays.protected, "\"", "\"", 1),
             LAMBDA string_matches :
          ProtectMatches(string_matches, Len(string_matches), "S",
                         arrays))))

RECURSIVE RestoreFrom(_, _, _)
\* for i, literal_content in enumerate(literals): the iterations from the
\* k-th element of the list on (i = k - 1)
RestoreFrom(restored, lits, k) ==
    IF k > Len(lits) THEN restored
    ELSE RestoreFrom(
             ReSub(ReSub(restored, StringPlaceholder(k - 1), FALSE, FALSE,
                         lits[k]),
                   ArrayPlaceholder(k - 1), FALSE, FALSE, lits[k]),
             lits, k + 1)

_restore_string_literals(text, lits) == RestoreFrom(text, lits, 1)

(***************************************************************************)
(* openpyxl/cell/_writer.py.  The module imports add_function_prefix from  *)
(* formula_utils under the name _add_function_prefix; the function of that *)
(* module is _add_function_prefix, and the calls of the writer are         *)
(* modelled as calls of it.                                                *)
(*                                                                         *)
(* A value is a record: kind tells its class (str, ArrayFormula,           *)
(* DataTableFormula, datetime, timedelta, number, none for None), text its *)
(* text, attrib what dict(value) gives for a formula object, tzinfo        *)
(* whether value.tzinfo is set.  An element <c> is a record of its         *)
(* attributes and its children; a child or a text that may be missing is   *)
(* a list of no or one entry.                                              *)
(***************************************************************************)
Value(kind, text, attrib, tzinfo) ==
    [kind |-> kind, text |-> text, attrib |-> attrib, tzinfo |-> tzinfo]

NoneValue == Value("none", <<>>, NoAttributes, FALSE)

StrValue(text) == Value("str", text, NoAttributes, FALSE)

\* ArrayFormula(ref, text): dict(value) is {'t': 'array', 'ref': ref}
ArrayFormula(ref, text) ==
    Value("ArrayFormula", text, [t |-> "array", ref |-> ref], FALSE)

\* DataTableFormula(ref): dict(value) is {'t': 'dataTable', 'ref': ref}
DataTableFormula(ref) ==
    Value("DataTableFormula", <<>>, [t |-> "dataTable", ref |-> ref], FALSE)

\* to_ISO8601(value)
to_ISO8601(value) == StrValue(<<"I", "S", "O">> \o value.text)

\* to_excel(value, epoch)
to_excel(value) == Value("number", <<"#">> \o value.text, NoAttributes, FALSE)

\* hasattr(value, "tzinfo") and value.tzinfo is not None, without the test
HasTimezoneNever(value) == FALSE

\* hasattr(value, "tzinfo") and value.tzinfo is not None
HasTimezone(value) == value.kind = "datetime" /\ value.tzinfo

\* attrs['cm'] left out
CellMetadataNever(c) == ""

\* attrs['cm'] = "1" if cell.data_type == "f" and cell._is_spill
CellMetadata(c) == IF c.data_type = "f" /\ c._is_spill THEN "1" ELSE ""

\* the hyperlink of a cell added to the list unless the list has it
AppendHyperlinkOnce(links, c) ==
    IF c.hyperlink # <<>> /\ \A k \in 1..Len(links) : links[k] # c.hyperlink
    THEN Append(links, c.hyperlink)
    ELSE links

\* if cell.hyperlink: cell.parent._hyperlinks.append(cell.hyperlink)
AppendHyperlink(links, c) ==
    IF c.hyperlink # <<>> THEN Append(links, c.hyperlink) ELSE links

\* _set_attributes(cell, styled): raised is the exception that ends the call
\* (none when ""); else value and attrs are what it returns and links is the
\* list cell.parent._hyperlinks after the call
_set_attributes(c, styled, iso_dates, links) ==
    LET attrs ==
          [r  |-> c.coordinate,
           s  |-> IF styled THEN c.style_id ELSE <<>>,
           t  |-> IF c.data_type = "s" THEN "inlineStr"
                  ELSE IF c.data_type # "f" THEN c.data_type ELSE "",
           cm |-> CellMetadata(c)]
        value == c._value
    IN  IF c.data_type = "d" /\ HasTimezone(value)
        THEN [raised |-> "TypeError", value |-> value, attrs |-> attrs,
              links |-> links]
        ELSE IF c.data_type = "d"
        THEN IF iso_dates /\ value.kind # "timedelta"
             THEN [raised |-> "", value |-> to_ISO8601(value),
                   attrs |-> attrs, links |-> AppendHyperlink(links, c)]
             ELSE [raised |-> "", value |-> to_excel(value),
                   attrs |-> [attrs EXCEPT !.t = "n"],
                   links |-> AppendHyperlink(links, c)]
        ELSE [raised |-> "", value |-> value, attrs |-> attrs,
              links |-> AppendHyperlink(links, c)]

\* value[1:] if value.startswith('=') else value
WithoutEq(text) ==
    IF Len(text) > 0 /\ text[1] = "=" THEN Tail(text) ELSE text

\* the element <c> with its attributes and no child
Element(attributes) ==
    [r |-> attributes.r, s |-> attributes.s, t |-> attributes.t,
     cm |-> attributes.cm, f |-> <<>>, is |-> <<>>, v |-> <<>>]

\* the branches on the value of a formula cell (if _is_spill ... elif ...):
\* attrib of the element <f> and value after them (a list of no entry for
\* None); processed tells that the LAMBDA/LET branch was taken
FormulaBranch(c, value, order) ==
    IF c._is_spill
    THEN With(prepare_spill_formula(value.text, c, order), LAMBDA out :
           [attrib |-> out.attrs, value |-> <<out.text>>])
    ELSE IF value.kind = "ArrayFormula"
    THEN [attrib |-> value.attrib, value |-> <<value.text>>]
    ELSE IF value.kind = "DataTableFormula"
    THEN [attrib |-> value.attrib, value |-> <<>>]
    ELSE IF value.kind = "str" /\ HasLambdaOrLet(value.text)
    THEN With(_add_function_prefix(value.text, order), LAMBDA out :
           [attrib |-> [t |-> "array", ref |-> c.coordinate],
            value  |-> <<IF IsHang(out) THEN Hang ELSE WithoutEq(out)>>])
    ELSE [attrib |-> NoAttributes, value |-> <<value.text>>]

\* the text of the element <f> (a list of no entry when none is written)
FormulaText(c, original_value, b, order) ==
    IF Len(b.value) = 0 \/ b.attrib.t = "dataTable" THEN <<>>
    ELSE IF IsHang(b.value[1]) THEN <<Hang>>
    ELSE
      LET is_lambda_or_let == /\ b.attrib.t = "array"
                              /\ original_value.kind = "str"
                              /\ original_value.text # <<>>
                              /\ HasLambdaOrLet(original_value.text)
      IN  IF ~c._is_spill /\ ~is_lambda_or_let
          THEN With(_add_function_prefix(b.value[1], order), LAMBDA out :
                 <<IF IsHang(out) THEN Hang ELSE WithoutEq(out)>>)
          ELSE <<b.value[1]>>

\* the body of etree_write_cell and of lxml_write_cell after
\* _set_attributes: the element <c> that is written for the cell
CellElement(c, value, attributes, order) ==
    IF value.kind = "none" \/ (value.kind = "str" /\ value.text = <<>>)
    THEN Element(attributes)
    ELSE IF c.data_type = "f"
    THEN With(FormulaBranch(c, value, order), LAMBDA b :
           With(FormulaText(c, value, b, order), LAMBDA text :
             [Element(attributes) EXCEPT
                !.f = <<[attrib |-> b.attrib, text |-> text]>>,
                \* value = "0" for a spill formula, None otherwise; the
                \* value of a formula object without text stays as it is
                !.v = <<IF Len(b.value) = 0 \/ b.attrib.t = "dataTable"
                        THEN <<>>
                        ELSE IF c._is_spill THEN <<<<"0">>>> ELSE <<>>>>]))
    ELSE IF c.data_type = "s"
    THEN [Element(attributes) EXCEPT !.is = <<value.text>>]
    ELSE [Element(attributes) EXCEPT !.v = <<<<value.text>>>>]

\* the element has a text that a call that never returns would have given
IsHung(el) ==
    Len(el.f) > 0 /\ Len(el.f[1].text) > 0 /\ IsHang(el.f[1].text[1])

(***************************************************************************)
(* The formulas of the model.  A formula is built from a shape, the record *)
(* of its parts, so that a property can speak of the parameters, the       *)
(* bodies and the arguments the formula was written with.                  *)
(***************************************************************************)
MaxParams == 2

MaxBindings == 2

MaxDepth == 3

MaxCalls == 2

MaxLiterals == 3

MaxWrites == 2

\* identifiers, literals and references formulas are written with
X == <<"x">>

Y == <<"y">>

XYZ == <<"x", "y", "z">>

A == <<"A">>

B == <<"B">>

C == <<"C">>

A1 == <<"A", "1">>

ONE == <<"1">>

STR_X == <<"\"", "x", "\"">>

SUM == <<"S", "U", "M">>

MAX == <<"M", "A", "X">>

IF_ == <<"I", "F">>

NONE == <<>>

\* all sequences over S of length lo..hi
SeqsOf(S, lo, hi) == UNION {[1..n -> S] : n \in lo..hi}

\* the elements of list at the positions of mask, in the order of list
Pick(list, mask) ==
    LET F[i \in 0..Len(list)] ==
          IF i = 0 THEN <<>>
          ELSE IF i \in mask THEN Append(F[i - 1], list[i]) ELSE F[i - 1]
    IN  F[Len(list)]

\* the non-empty selections of operands from list
Selections(list) == {Pick(list, mask) : mask \in SUBSET (1..Len(list)) \ {{}}}

\* a body is its operands joined by '+'
Plus(operands) == Join(operands, <<"+">>)

\* name(arg)
Call(name, arg) == name \o <<"(">> \o arg \o <<")">>

Args(args) == Join(args, <<",">>)

\* ---- a single LAMBDA: =LAMBDA(p1,...,pn,body)
LambdaShapes ==
    { [kind |-> "lambda", params |-> ps, body |-> b] :
        ps \in SeqsOf([name : {X, Y}, optional : BOOLEAN], 1, MaxParams),
        b  \in Selections(<<X, Y, XYZ, STR_X>>) }

Declaration(param) ==
    IF param.optional THEN <<"[">> \o param.name \o <<"]">> ELSE param.name

RenderLambda(sh) ==
    <<"=">> \o Call(S_LAMBDA,
        Args([k \in 1..Len(sh.params) |-> Declaration(sh.params[k])]
             \o <<Plus(sh.body)>>))

\* ---- a single LET: =LET(n1,e1,...,nk,ek,final)
LetShapes ==
    UNION { { [kind |-> "let", names |-> ns, exprs |-> es, final |-> f] :
                ns \in [1..k -> {X, Y}],
                es \in [1..k -> {X, ONE}],
                f  \in Selections(<<X, Y, STR_X>>) } : k \in 1..MaxBindings }

RenderLet(sh) ==
    <<"=">> \o Call(S_LET,
        Args([k \in 1..(2 * Len(sh.names)) |->
                 IF k % 2 = 1 THEN sh.names[(k + 1) \div 2]
                 ELSE sh.exprs[k \div 2]]
             \o <<Plus(sh.final)>>))

\* ---- nested LAMBDAs with pairwise distinct parameters:
\*   =LAMBDA(p1,in1+LAMBDA(p2,in2+...+out3)+out2)+out1
\* level i has parameter LevelParams[i]; in_i stands in the body of level i
\* before the inner LAMBDA, out_i stands right after the closing parenthesis
\* of level i
LevelParams == <<X, Y, <<"z">>, <<"w">>, <<"v">>>>

NestedShapes ==
    UNION { { [kind |-> "nested", depth |-> d, inside |-> ins, outside |-> outs] :
                ins \in { q \in [1..d -> {LevelParams[k] : k \in 1..(d + 1)}] :
                            \A i \in 1..d :
                               q[i] \in {LevelParams[1], LevelParams[i],
                                         LevelParams[i + 1]} },
                outs \in { q \in [1..d -> {LevelParams[k] : k \in 1..d}] :
                            \A i \in 1..d :
                               q[i] \in {LevelParams[1], LevelParams[i]} } } :
            d \in 1..MaxDepth }

RECURSIVE NestedLambda(_, _)
\* the LAMBDA of level i with everything nested in it
NestedLambda(sh, i) ==
    Call(S_LAMBDA,
         Args(<<LevelParams[i],
                IF i = sh.depth THEN sh.inside[i]
                ELSE Plus(<<sh.inside[i], NestedLambda(sh, i + 1),
                            sh.outside[i + 1]>>)>>))

RenderNested(sh) == <<"=">> \o Plus(<<NestedLambda(sh, 1), sh.outside[1]>>)

\* ---- calls of registry functions: =[before(A1)+]wrap(outer(inner(arg)))
\* where outer, inner and before may be absent and the wrap puts the calls
\* at the top level, in a LAMBDA body or in the final expression of a LET
CallShapes ==
    { [kind |-> "calls", wrap |-> w, outer |-> o, inner |-> i, before |-> b] :
        w \in {"none", "lambda", "let"},
        o \in {NONE, SORT, SORTBY, FILTER},
        i \in {NONE, SORT, SORTBY, FILTER},
        b \in {NONE, SORT, SORTBY} }

OptCall(name, arg) == IF name = NONE THEN arg ELSE Call(name, arg)

RenderCalls(sh) ==
    LET core(arg) == OptCall(sh.outer, OptCall(sh.inner, arg))
        wrapped == CASE sh.wrap = "none" -> core(A1)
                     [] sh.wrap = "lambda" -> Call(S_LAMBDA, Args(<<X, core(X)>>))
                     [] sh.wrap = "let" -> Call(S_LET, Args(<<X, A1, core(X)>>))
    IN  <<"=">> \o (IF sh.before = NONE THEN wrapped
                    ELSE Plus(<<Call(sh.before, A1), wrapped>>))

\* ---- string literals: a literal at the top level, as the argument of a
\* call, in a LAMBDA body or in a LET
Quoted(content) == <<"\"">> \o content \o <<"\"">>

LiteralContents ==
    { X, <<"a", " ", "b">>, Call(SORT, X), S_LET,
      A1 \o DOT_COLON_DOT \o <<"B", "3">>, <<")">>, <<"(">> }

StringShapes ==
    { [kind |-> "string", wrap |-> w, content |-> c] :
        w \in {"none", "call", "lambda", "let"}, c \in LiteralContents }

RenderString(sh) ==
    LET lit == Quoted(sh.content) IN
    <<"=">> \o
    CASE sh.wrap = "none" -> lit \o <<"&">> \o A1
      [] sh.wrap = "call" -> Call(SORT, Args(<<A, lit>>))
      [] sh.wrap = "lambda" -> Call(S_LAMBDA, Args(<<X, lit \o <<"&">> \o X>>))
      [] sh.wrap = "let" -> Call(S_LET, Args(<<X, lit, X \o <<"&">> \o lit>>))

\* ---- GROUPBY and PIVOTBY: the arguments before the aggregate argument
\* and the aggregate argument itself
AggregateArgs ==
    { A, Call(IF_, Args(<<A, B>>)), Call(GROUPBY, Args(<<B, C, SUM>>)) }

AggregateTargets ==
    { SUM, UNIQUE, SORT, Call(S_LAMBDA, Args(<<X, Call(MAX, X)>>)) }

AggregateShapes ==
    UNION { { [kind |-> "aggregate", func |-> e.func_name, args |-> as,
               target |-> t] :
                as \in [1..(e.target_arg_pos - 1) -> AggregateArgs],
                t \in AggregateTargets } :
            e \in {AGGREGATE_ARG_POSITIONS[k] :
                      k \in 1..Len(AGGREGATE_ARG_POSITIONS)} }

RenderAggregate(sh) ==
    <<"=">> \o Call(sh.func, Args(sh.args \o <<sh.target>>))

\* ---- ranges: X<notation>Y at the top level, as the argument of a call, in
\* a LAMBDA body, or both in a LAMBDA body and after it
COLON == <<":">>

RangePairs ==
    { <<A1, <<"B", "3">>>>, <<<<"A", "$", "1">>, <<"B", "$", "3">>>>,
      <<<<"$", "A", "1">>, <<"$", "B", "3">>>>,
      <<<<"$", "A", "$", "1">>, <<"$", "B", "$", "3">>>>,
      <<A, C>>, <<<<"$", "A">>, <<"$", "C">>>>,
      <<ONE, <<"9">>>>, <<<<"$", "1">>, <<"$", "9">>>>,
      <<A1, <<"$", "B", "$", "3">>>>, <<A, <<"9">>>> }

RangeShapes ==
    { [kind |-> "range", wrap |-> w, left |-> p[1], right |-> p[2],
       notation |-> n] :
        w \in {"none", "call", "lambda", "both"},
        p \in RangePairs,
        n \in {DOT_COLON_DOT, COLON_DOT, DOT_COLON, COLON} }

RenderRange(sh) ==
    LET range == sh.left \o sh.notation \o sh.right
        lam == Call(S_LAMBDA, Args(<<X, range>>)) \o Call(<<>>, ONE)
    IN  <<"=">> \o
        CASE sh.wrap = "none" -> range
          [] sh.wrap = "call" -> Call(SUM, range)
          [] sh.wrap = "lambda" -> lam
          [] sh.wrap = "both" -> Plus(<<lam, range>>)

\* ---- sheet-qualified ranges: S!X<notation>Y at the top level or as the
\* argument of a call; the sheet name is a plain one (letters, digits and
\* '_') or a quoted one ('M S', the form of a name with a space in it)
SheetNames ==
    { <<"S", "1">>, <<"D", "_", "a">>, <<"'", "M", " ", "S", "'">> }

SheetPairs ==
    { <<A1, <<"B", "3">>>>, <<<<"$", "A", "$", "1">>, <<"$", "B", "$", "3">>>>,
      <<A, C>>, <<ONE, <<"9">>>> }

SheetShapes ==
    { [kind |-> "sheet", wrap |-> w, sheet |-> s, left |-> p[1],
       right |-> p[2], notation |-> n] :
        w \in {"none", "call"},
        s \in SheetNames,
        p \in SheetPairs,
        n \in {DOT_COLON_DOT, COLON_DOT, DOT_COLON, COLON} }

RenderSheet(sh) ==
    LET range == sh.sheet \o <<"!">> \o sh.left \o sh.notation \o sh.right
    IN  <<"=">> \o (IF sh.wrap = "call" THEN Call(SUM, range) ELSE range)

\* ---- malformed LAMBDA and LET calls: no argument, one argument, an even
\* number of arguments, an empty argument (an empty parameter or variable
\* name, an empty body), a string literal that is not closed, a closing
\* parenthesis that is missing
MalformedArgs ==
    { <<>>, <<X>>, <<X, <<>>>>, <<<<>>, X>>, <<<<>>, <<"(", "1", ")">>>>,
      <<X, <<"\"", "a">>>>, <<X, ONE, <<>>>>, <<<<>>, ONE, <<"(", "1", ")">>>>,
      <<Call(SORT, A1)>>, <<X, Call(SORT, X)>>, <<X, ONE, Y, X>> }

MalformedShapes ==
    { [kind |-> "malformed", head |-> h, args |-> a, closed |-> c] :
        h \in {S_LAMBDA, S_LET}, a \in MalformedArgs, c \in BOOLEAN }

RenderMalformed(sh) ==
    <<"=">> \o sh.head \o <<"(">> \o Args(sh.args)
            \o (IF sh.closed THEN <<")">> ELSE <<>>)

\* ---- calls of TRIMRANGE, given to add_function_prefix of
\* formula_prefix.py: at the top level, as the argument of a call of a plain
\* function or of a registry function, or in the body of a LAMBDA; with or
\* without the two trim arguments; once or twice in the formula
TrimrangeShapes ==
    { [kind |-> "trimrange", wrap |-> w, range |-> r, trim |-> t,
       twice |-> d] :
        w \in {NONE, SUM, SORT, UNIQUE, S_LAMBDA},
        r \in { A1 \o COLON \o <<"B", "3">>, A \o COLON \o C,
                <<"S", "1", "!">> \o A1 \o COLON \o <<"B", "3">> },
        t \in { <<>>, <<",", "3", ",", "3">> },
        d \in BOOLEAN }

RenderTrimrange(sh) ==
    LET call(arg) == Call(TRIMRANGE, arg \o sh.trim)
        once == IF sh.wrap = S_LAMBDA
                THEN Call(S_LAMBDA, Args(<<X, call(X)>>))
                     \o <<"(">> \o sh.range \o <<")">>
                ELSE OptCall(sh.wrap, call(sh.range))
    IN  <<"=">> \o once
        \o (IF sh.twice THEN <<"-">> \o Call(MAX, call(sh.range)) ELSE <<>>)

\* ---- texts with literals: up to MaxLiterals operands joined by '&', each
\* a string literal, an array literal, a string literal with braces in it,
\* or a plain reference; a name, and the content of a string literal, may
\* have the form of a placeholder
LiteralOperands ==
    { Quoted(<<"a">>), Quoted(<<"b">>), <<"{", "1", "}">>, <<"{", "2", "}">>,
      Quoted(<<"{", "1", "}">>), A1,
      StringPlaceholder(0), Quoted(StringPlaceholder(0)) }

LiteralShapes ==
    { [kind |-> "literals", operands |-> ops] :
        ops \in SeqsOf(LiteralOperands, 1, MaxLiterals) }

RenderLiterals(sh) == <<"=">> \o Join(sh.operands, <<"&">>)

\* ---- a LAMBDA or a LET inside a LAMBDA or a LET: the outer construct
\* binds x, the inner one binds x again or y and may call a registry
\* function on its name; the inner construct is the body of the outer
\* LAMBDA, or the final expression or the definition of the outer LET
\*   =LAMBDA(x,inner)   =LET(x,1,inner)   =LET(x,inner,x)
\*   inner: LAMBDA(n,call(n)) or LET(n,x,call(n))
ScopeShapes ==
    { sh \in [kind : {"scope"}, outer : {S_LAMBDA, S_LET},
               inner : {S_LAMBDA, S_LET}, name : {X, Y},
               call : {NONE, SORT, UNIQUE}, place : {"final", "definition"}] :
        sh.outer = S_LAMBDA => sh.place = "final" }

ScopeInner(sh) ==
    IF sh.inner = S_LAMBDA
    THEN Call(S_LAMBDA, Args(<<sh.name, OptCall(sh.call, sh.name)>>))
    ELSE Call(S_LET, Args(<<sh.name, X, OptCall(sh.call, sh.name)>>))

RenderScope(sh) ==
    <<"=">> \o
    CASE sh.outer = S_LAMBDA -> Call(S_LAMBDA, Args(<<X, ScopeInner(sh)>>))
      [] sh.outer = S_LET /\ sh.place = "final" ->
           Call(S_LET, Args(<<X, ONE, ScopeInner(sh)>>))
      [] sh.outer = S_LET /\ sh.place = "definition" ->
           Call(S_LET, Args(<<X, ScopeInner(sh), X>>))

\* ---- a registry name that is not a call: the two ends of a range of
\* whole columns, a defined name used as an operand, the name of a LET
\* variable
\*   =SUM(NAME:NAME)   =NAME+1   =LET(NAME,1,NAME+1)
BareShapes ==
    { [kind |-> "bare", name |-> n, use |-> u] :
        n \in {SORT, SORTBY, FILTER, UNIQUE, S_LET},
        u \in {"column", "operand", "variable"} }

RenderBare(sh) ==
    <<"=">> \o
    CASE sh.use = "column" -> Call(SUM, sh.name \o COLON \o sh.name)
      [] sh.use = "operand" -> Plus(<<sh.name, ONE>>)
      [] sh.use = "variable" ->
           Call(S_LET, Args(<<sh.name, ONE, Plus(<<sh.name, ONE>>)>>))

\* the families of formulas
Families ==
    << LambdaShapes, LetShapes, NestedShapes, CallShapes, StringShapes,
       AggregateShapes, RangeShapes, SheetShapes, MalformedShapes,
       ScopeShapes, BareShapes >>

Render(sh) ==
    CASE sh.kind = "lambda" -> RenderLambda(sh)
      [] sh.kind = "let" -> RenderLet(sh)
      [] sh.kind = "nested" -> RenderNested(sh)
      [] sh.kind = "calls" -> RenderCalls(sh)
      [] sh.kind = "string" -> RenderString(sh)
      [] sh.kind = "aggregate" -> RenderAggregate(sh)
      [] sh.kind = "range" -> RenderRange(sh)
      [] sh.kind = "sheet" -> RenderSheet(sh)
      [] sh.kind = "malformed" -> RenderMalformed(sh)
      [] sh.kind = "scope" -> RenderScope(sh)
      [] sh.kind = "bare" -> RenderBare(sh)

(***************************************************************************)
(* The state: one formula, the order in which this interpreter iterates    *)
(* the set EXCEL_NEW_FUNCTIONS (fixed by the hash seed of the process),    *)
(* and the calls made on the formula; the list of literals taken out of a  *)
(* text by _protect_string_literals; a worksheet with its cells, its list  *)
(* _hyperlinks and the elements written to the xml file xf.                *)
(***************************************************************************)
VARIABLES shape, formula, order, calls, previous, result, status, cell, attrs,
          literals, worksheet, _hyperlinks, xf

vars == <<shape, formula, order, calls, previous, result, status, cell, attrs,
          literals, worksheet, _hyperlinks, xf>>

\* the state of the writer and of the masking of literals
writer_vars == <<literals, worksheet, _hyperlinks, xf>>

\* no worksheet is open
NoWorksheet == [cells |-> <<>>, iso_dates |-> FALSE, _hyperlinks |-> <<>>]

RECURSIVE SeqOfSet(_)
\* the elements of a set of names, in a fixed order
SeqOfSet(S) ==
    IF S = {} THEN <<>>
    ELSE LET f == CHOOSE g \in S : TRUE IN <<f>> \o SeqOfSet(S \ {f})

\* the names of the registry that occur in a formula
NamesIn(t) == {f \in TAGGED_FUNCTIONS : Contains(t, f)}

\* the iteration orders of the registry that can differ in their effect on
\* formula f: every order of the names that occur in the formula, followed
\* by the names that do not occur (the loop leaves the text alone for them)
Orders(f) ==
    LET used == NamesIn(_convert_tro_notations(f)) IN
    { [k \in 1..Cardinality(used) |-> p[k]] \o SeqOfSet(TAGGED_FUNCTIONS \ used) :
        p \in {q \in [1..Cardinality(used) -> used] :
                  \A a, b \in 1..Cardinality(used) : q[a] = q[b] => a = b} }

NoCell == [_is_spill |-> FALSE, _spill_range |-> NoRange, coordinate |-> <<>>]

COORDINATE == <<"A", "1">>

SPILL_RANGE == <<"B", "2", ":", "B", "5">>

Cells ==
    { [_is_spill |-> TRUE, _spill_range |-> SPILL_RANGE, coordinate |-> COORDINATE],
      [_is_spill |-> TRUE, _spill_range |-> NoRange, coordinate |-> COORDINATE],
      [_is_spill |-> FALSE, _spill_range |-> NoRange, coordinate |-> COORDINATE] }

Init ==
    /\ \E k \in 1..Len(Families) : shape \in Families[k]
    /\ formula = Render(shape)
    /\ order \in Orders(formula)
    /\ calls = 0
    /\ previous = <<>>
    /\ result = formula
    /\ status = "input"
    /\ cell = NoCell
    /\ attrs = NoAttributes
    /\ literals = <<>>
    /\ worksheet = NoWorksheet
    /\ _hyperlinks = <<>>
    /\ xf = <<>>

\* _add_function_prefix called on the formula, or on the text a previous
\* call returned
AddFunctionPrefix ==
    /\ status # "hung"
    /\ cell = NoCell
    /\ calls < MaxCalls
    /\ With(_add_function_prefix(result, order), LAMBDA out :
         IF IsHang(out)
         THEN /\ status' = "hung"
              /\ UNCHANGED <<previous, result, calls>>
         ELSE /\ status' = "returned"
              /\ previous' = result
              /\ result' = out
              /\ calls' = calls + 1)
    /\ UNCHANGED <<shape, formula, order, cell, attrs>>
    /\ UNCHANGED writer_vars

\* prepare_spill_formula called on the formula for a cell
PrepareSpillFormula ==
    /\ status = "input"
    /\ \E c \in Cells :
         With(prepare_spill_formula(formula, c, order), LAMBDA out :
           /\ cell' = c
           /\ IF IsHang(out.text)
              THEN /\ status' = "hung"
                   /\ UNCHANGED <<previous, result, calls, attrs>>
              ELSE /\ status' = "returned"
                   /\ previous' = result
                   /\ result' = out.text
                   /\ attrs' = out.attrs
                   /\ calls' = calls + 1)
    /\ UNCHANGED <<shape, formula, order>>
    /\ UNCHANGED writer_vars

Next == AddFunctionPrefix \/ PrepareSpillFormula

Spec == Init /\ [][Next]_vars

(***************************************************************************)
(* add_function_prefix of formula_prefix.py, called on a formula with      *)
(* calls of TRIMRANGE.                                                     *)
(***************************************************************************)
\* the iteration orders of the registry of formula_prefix.py that can differ
\* in their effect on formula f
FormulaPrefixOrders(f) ==
    LET used == {g \in FORMULA_PREFIX_FUNCTIONS : Contains(f, g)} IN
    { [k \in 1..Cardinality(used) |-> p[k]]
          \o SeqOfSet(FORMULA_PREFIX_FUNCTIONS \ used) :
        p \in {q \in [1..Cardinality(used) -> used] :
                  \A a, b \in 1..Cardinality(used) : q[a] = q[b] => a = b} }

PrefixInit ==
    /\ shape \in TrimrangeShapes
    /\ formula = RenderTrimrange(shape)
    /\ order \in FormulaPrefixOrders(formula)
    /\ calls = 0
    /\ previous = <<>>
    /\ result = formula
    /\ status = "input"
    /\ cell = NoCell
    /\ attrs = NoAttributes
    /\ literals = <<>>
    /\ worksheet = NoWorksheet
    /\ _hyperlinks = <<>>
    /\ xf = <<>>

\* add_function_prefix called on the formula, or on the text a previous call
\* returned
FormulaPrefixAddFunctionPrefix ==
    /\ status # "hung"
    /\ calls < MaxCalls
    /\ With(add_function_prefix(result, order), LAMBDA out :
         IF IsHang(out)
         THEN /\ status' = "hung"
              /\ UNCHANGED <<previous, result, calls>>
         ELSE /\ status' = "returned"
              /\ previous' = result
              /\ result' = out
              /\ calls' = calls + 1)
    /\ UNCHANGED <<shape, formula, order, cell, attrs>>
    /\ UNCHANGED writer_vars

PrefixNext == FormulaPrefixAddFunctionPrefix

PrefixSpec == PrefixInit /\ [][PrefixNext]_vars

(***************************************************************************)
(* _protect_string_literals called on a text, and _restore_string_literals *)
(* called on the pair it returned.                                         *)
(***************************************************************************)
LiteralsInit ==
    /\ shape \in LiteralShapes
    /\ formula = RenderLiterals(shape)
    /\ order = <<>>
    /\ calls = 0
    /\ previous = <<>>
    /\ result = formula
    /\ status = "input"
    /\ cell = NoCell
    /\ attrs = NoAttributes
    /\ literals = <<>>
    /\ worksheet = NoWorksheet
    /\ _hyperlinks = <<>>
    /\ xf = <<>>

\* protected, literals = _protect_string_literals(text)
ProtectStringLiterals ==
    /\ status = "input"
    /\ With(_protect_string_literals(result), LAMBDA out :
         /\ result' = out.protected
         /\ literals' = out.literals)
    /\ previous' = result
    /\ status' = "protected"
    /\ UNCHANGED <<shape, formula, order, calls, cell, attrs, worksheet,
                   _hyperlinks, xf>>

\* _restore_string_literals(protected, literals)
RestoreStringLiterals ==
    /\ status = "protected"
    /\ result' = _restore_string_literals(result, literals)
    /\ previous' = result
    /\ status' = "restored"
    /\ UNCHANGED <<shape, formula, order, calls, cell, attrs, literals,
                   worksheet, _hyperlinks, xf>>

LiteralsNext == ProtectStringLiterals \/ RestoreStringLiterals

LiteralsSpec == LiteralsInit /\ [][LiteralsNext]_vars

(***************************************************************************)
(* The writer: a worksheet of two cells, A1 and B1, and the calls of       *)
(* etree_write_cell and lxml_write_cell on its cells.  A1 varies over the  *)
(* kinds of cell the writer tells apart; B1 is a string cell.  A spill     *)
(* flag is set only on cells whose value is a formula string.              *)
(***************************************************************************)
WriterCell(coordinate, data_type, value, c, hyperlink) ==
    [coordinate |-> coordinate, data_type |-> data_type, _value |-> value,
     _is_spill |-> c._is_spill, _spill_range |-> c._spill_range,
     hyperlink |-> hyperlink, style_id |-> <<"3">>]

\* the cell before the first call
NoCellWritten == WriterCell(<<>>, "", NoneValue, NoCell, <<>>)

COMPLETE == <<"C", "O", "M", "P", "L", "E", "T", "E">>

\* formula strings: a plain call, a registry call, a LAMBDA, a LET, and a call
\* of a function whose name has the letters LET in it
WriterFormulas ==
    { <<"=">> \o Call(SUM, A1), <<"=">> \o Call(SORT, A1),
      <<"=">> \o Call(S_LAMBDA, Args(<<X, X>>)) \o Call(<<>>, ONE),
      <<"=">> \o Call(S_LET, Args(<<X, ONE, X>>)),
      <<"=">> \o Call(COMPLETE, A1) }

ARRAY_REF == <<"E", "2", ":", "E", "9">>

\* the values of cell A1 with their data types and spill attributes
WriterSubjects ==
    { [data_type |-> "f", value |-> StrValue(f), spill |-> c] :
        f \in WriterFormulas, c \in Cells }
    \cup
    { [data_type |-> "f", value |-> v, spill |-> NoCell] :
        v \in { ArrayFormula(ARRAY_REF, <<"=">> \o Call(SORT, A1)),
                ArrayFormula(ARRAY_REF, <<"=">> \o A1 \o <<"*", "2">>),
                DataTableFormula(ARRAY_REF) } }
    \cup
    { [data_type |-> "d", value |-> v, spill |-> NoCell] :
        v \in { Value("datetime", <<"T">>, NoAttributes, TRUE),
                Value("datetime", <<"T">>, NoAttributes, FALSE),
                Value("timedelta", <<"D">>, NoAttributes, FALSE) } }
    \cup
    { [data_type |-> "s", value |-> StrValue(X), spill |-> NoCell],
      [data_type |-> "n", value |-> Value("number", ONE, NoAttributes, FALSE),
       spill |-> NoCell],
      [data_type |-> "n", value |-> NoneValue, spill |-> NoCell] }

\* hyperlinks: of A1, of B1, and one the list holds before the first call
H0 == <<"h", "0">>

H1 == <<"h", "1">>

H2 == <<"h", "2">>

Worksheets ==
    { [cells |-> << WriterCell(COORDINATE, a.data_type, a.value, a.spill, h1),
                    WriterCell(<<"B", "1">>, "s", StrValue(Y), NoCell, h2) >>,
       iso_dates |-> iso,
       _hyperlinks |-> h0] :
        a \in WriterSubjects, h1 \in {<<>>, H1}, h2 \in {<<>>, H2},
        iso \in BOOLEAN, h0 \in {<<>>, <<H0>>} }

WriterInit ==
    /\ worksheet \in Worksheets
    /\ _hyperlinks = worksheet._hyperlinks
    /\ xf = <<>>
    /\ order \in Orders(worksheet.cells[1]._value.text)
    /\ shape = [kind |-> "worksheet"]
    /\ formula = <<>>
    /\ calls = 0
    /\ previous = <<>>
    /\ result = <<>>
    /\ status = "input"
    /\ cell = NoCellWritten
    /\ attrs = NoAttributes
    /\ literals = <<>>

\* one call of the writer on cell c: _set_attributes and then the element
WriteCell(c, styled) ==
    /\ status # "hung"
    /\ calls < MaxWrites
    /\ With(_set_attributes(c, styled, worksheet.iso_dates, _hyperlinks),
            LAMBDA a :
         IF a.raised # ""
         THEN /\ status' = a.raised
              /\ UNCHANGED <<_hyperlinks, xf>>
         ELSE With(CellElement(c, a.value, a.attrs, order), LAMBDA el :
                /\ _hyperlinks' = a.links
                /\ IF IsHung(el)
                   THEN status' = "hung" /\ xf' = xf
                   ELSE status' = "written" /\ xf' = Append(xf, el)))
    /\ cell' = c
    /\ calls' = calls + 1
    /\ UNCHANGED <<shape, formula, order, previous, result, attrs, literals,
                   worksheet>>

etree_write_cell ==
    \E k \in 1..Len(worksheet.cells), styled \in BOOLEAN :
        WriteCell(worksheet.cells[k], styled)

lxml_write_cell ==
    \E k \in 1..Len(worksheet.cells), styled \in BOOLEAN :
        WriteCell(worksheet.cells[k], styled)

WriterNext == etree_write_cell \/ lxml_write_cell

WriterSpec == WriterInit /\ [][WriterNext]_vars

(***************************************************************************)
(* Properties.  The text a property expects is written from the shape of   *)
(* the formula, token by token.                                            *)
(***************************************************************************)
\* the formula went through exactly one call
Tagged == status = "returned" /\ calls = 1

\* an operand that stands for one of names, in its '_xlpm.' form
Rewritten(operand, names) ==
    IF operand \in names THEN XLPM \o operand ELSE operand

RewrittenAll(operands, names) ==
    [k \in 1..Len(operands) |-> Rewritten(operands[k], names)]

ParamNames(sh) == {sh.params[k].name : k \in 1..Len(sh.params)}

LambdaExpected(sh) ==
    <<"=">> \o Call(XLFN \o S_LAMBDA,
        Args([k \in 1..Len(sh.params) |->
                 (IF sh.params[k].optional THEN XLOP ELSE XLPM)
                 \o sh.params[k].name]
             \o <<Plus(RewrittenAll(sh.body, ParamNames(sh)))>>))

Distinct(names) ==
    \A i, j \in 1..Len(names) : names[i] = names[j] => i = j

\* the names of the bindings lo..hi
NamesOf(sh, lo, hi) == {sh.names[j] : j \in lo..hi}

LetExpected(sh) ==
    <<"=">> \o Call(XLFN \o S_LET,
        Args([k \in 1..(2 * Len(sh.names)) |->
                 IF k % 2 = 1 THEN XLPM \o sh.names[(k + 1) \div 2]
                 ELSE Rewritten(sh.exprs[k \div 2],
                                NamesOf(sh, 1, (k \div 2) - 1))]
             \o <<Plus(RewrittenAll(sh.final,
                                    NamesOf(sh, 1, Len(sh.names))))>>))

StartsWith(t, p) == Len(p) <= Len(t) /\ SubSeq(t, 1, Len(p)) = p

\* the output of a LET up to its final expression when the definition of
\* binding i is in its '_xlpm.' form exactly if rewritten[i]
LetHead(sh, rewritten) ==
    <<"=">> \o XLFN \o S_LET \o <<"(">>
    \o Args([k \in 1..(2 * Len(sh.names)) |->
                IF k % 2 = 1 THEN XLPM \o sh.names[(k + 1) \div 2]
                ELSE IF rewritten[k \div 2] THEN XLPM \o sh.exprs[k \div 2]
                ELSE sh.exprs[k \div 2]])
    \o <<",">>

\* C3 as stated: in the output of a LET no definition that is binding i's
\* own name or a later binding's name is in the '_xlpm.' form, whatever the
\* list of names (names that coincide included).
C3_NoForwardReference ==
    (shape.kind = "let" /\ Tagged) =>
        \E rewritten \in [1..Len(shape.names) -> BOOLEAN] :
            /\ StartsWith(result, LetHead(shape, rewritten))
            /\ \A i \in 1..Len(shape.names) :
                  shape.exprs[i] \in NamesOf(shape, i, Len(shape.names))
                      => ~rewritten[i]

\* C3, amended: a definition that is binding i's own name or a later
\* binding's name is not in the '_xlpm.' form unless the name is also the
\* name of an earlier binding; then it is, as a reference to that binding.
C3_NoForwardReferenceUnlessBound ==
    (shape.kind = "let" /\ Tagged) =>
        \E rewritten \in [1..Len(shape.names) -> BOOLEAN] :
            /\ StartsWith(result, LetHead(shape, rewritten))
            /\ \A i \in 1..Len(shape.names) :
                  rewritten[i] <=> shape.exprs[i] \in NamesOf(shape, 1, i - 1)

\* a LET of two bindings of one name, each defined by that name, has been
\* tagged
C3_Witness ==
    /\ shape.kind = "let" /\ Tagged
    /\ shape.names = <<X, X>>
    /\ shape.exprs = <<X, X>>

\* the visible parameters at level i of nested LAMBDAs
Visible(i) == {LevelParams[k] : k \in 1..i}

RECURSIVE NestedExpected(_, _)
NestedExpected(sh, i) ==
    Call(XLFN \o S_LAMBDA,
         Args(<<XLPM \o LevelParams[i],
                IF i = sh.depth THEN Rewritten(sh.inside[i], Visible(i))
                ELSE Plus(<<Rewritten(sh.inside[i], Visible(i)),
                            NestedExpected(sh, i + 1),
                            Rewritten(sh.outside[i + 1], Visible(i))>>)>>))

InLiteral(t, i) ==
    Cardinality({j \in 1..(i - 1) : t[j] = "\""}) % 2 = 1

\* the positions outside string literals where a call of name starts
CallsOf(t, name) ==
    {i \in 1..Len(t) :
        /\ MatchAt(t, i, name \o <<"(">>)
        /\ (i = 1 \/ t[i - 1] \notin Upper \cup Digit)
        /\ ~InLiteral(t, i)}

\* p stands immediately before position i
PrecededBy(t, i, p) == MatchAt(t, i - Len(p), p)

\* the compatibility prefix of a registry function
CompatPrefix(name) == IF name \in {SORT, FILTER} THEN XLFN \o XLWS ELSE XLFN

Markers == {XLFN, XLWS, XLPM, XLOP, XLETA}

\* C5: for a formula that starts with '=' and holds no prefix marker, every
\* call of a registry function in the output of _add_function_prefix has
\* its compatibility prefix immediately before it ('_xlfn.', or
\* '_xlfn._xlws.' for SORT and FILTER), wherever the call stands and whether
\* or not the name occurs elsewhere in the formula.
C5_CallsPrefixed ==
    (Tagged /\ \A m \in Markers : ~Contains(formula, m)) =>
        \A name \in EXCEL_NEW_FUNCTIONS :
            \A i \in CallsOf(result, name) :
                PrecededBy(result, i, CompatPrefix(name))

\* C6: tagging is idempotent: _add_function_prefix applied to a text it
\* returned returns that text.
C6_Idempotent ==
    (status = "returned" /\ calls >= 2) => result = previous

\* no marker stands immediately before position i
Unmarked(t, i) == \A m \in Markers : ~PrecededBy(t, i, m)

\* C7: after any number n >= 1 of applications every call of SORT and of
\* FILTER carries '_xlfn._xlws.' exactly once (never bare, never '_xlfn.'
\* alone, never a repeated marker) and every call of SORTBY only '_xlfn.'.
C7_DoublePrefixOnce ==
    (status = "returned" /\ calls >= 1) =>
        /\ \A name \in {SORT, FILTER} :
              \A i \in CallsOf(result, name) :
                  /\ PrecededBy(result, i, XLFN \o XLWS)
                  /\ Unmarked(result, i - Len(XLFN \o XLWS))
        /\ \A i \in CallsOf(result, SORTBY) :
              /\ PrecededBy(result, i, XLFN)
              /\ Unmarked(result, i - Len(XLFN))

\* the n-th smallest element of a set of numbers
Nth(S, n) == CHOOSE e \in S : Cardinality({d \in S : d < e}) = n - 1

\* the texts between the pairs of double quotes of t, in their order
Literals(t) ==
    LET quotes == {i \in 1..Len(t) : t[i] = "\""} IN
    [k \in 1..(Cardinality(quotes) \div 2) |->
        SubSeq(t, Nth(quotes, 2 * k - 1) + 1, Nth(quotes, 2 * k) - 1)]

\* C8: the text between each pair of double quotes of the input stands
\* unchanged in the output of _add_function_prefix, whatever the literal
\* holds.
C8_LiteralsUnchanged ==
    Tagged => Literals(result) = Literals(formula)

AggregateLambda == Call(S_LAMBDA, Args(<<X, Call(MAX, X)>>))

\* the aggregate argument as the claim has it in the output
TargetExpected(target) ==
    IF target = AggregateLambda
    THEN Call(XLFN \o S_LAMBDA, Args(<<XLPM \o X, Call(MAX, XLPM \o X)>>))
    ELSE XLETA \o target

\* an argument before the aggregate argument in the output
ArgumentExpected(arg) ==
    IF arg = Call(GROUPBY, Args(<<B, C, SUM>>))
    THEN Call(XLFN \o GROUPBY, Args(<<B, C, TargetExpected(SUM)>>))
    ELSE arg

\* C9: in every call of GROUPBY (third argument) and PIVOTBY (fourth
\* argument) an aggregate argument that is a LAMBDA comes out as the
\* rewritten _xlfn.LAMBDA(...) without '_xleta.', and one that is any other
\* bare function name as '_xleta.'+NAME, the marker once and no '_xlfn.' on
\* the name.
C9_AggregateArgument ==
    (shape.kind = "aggregate" /\ Tagged) =>
        result = <<"=">> \o Call(XLFN \o shape.func,
                     Args([k \in 1..Len(shape.args) |->
                              ArgumentExpected(shape.args[k])]
                          \o <<TargetExpected(shape.target)>>))

\* the function a notation stands for
NotationFunction(n) ==
    CASE n = DOT_COLON_DOT -> TRO_ALL
      [] n = COLON_DOT -> TRO_TRAILING
      [] n = DOT_COLON -> TRO_LEADING

\* the range of a shape as the claim has it in the output
RangeExpected(sh) ==
    IF sh.notation = COLON THEN sh.left \o COLON \o sh.right
    ELSE Call(XLFN \o NotationFunction(sh.notation),
              sh.left \o COLON \o sh.right)

\* C10: prepare_spill_formula turns every X.:.Y into _xlfn._TRO_ALL(X:Y),
\* every X:.Y into _xlfn._TRO_TRAILING(X:Y) and every X.:Y into
\* _xlfn._TRO_LEADING(X:Y); an ordinary range X:Y stays as it is.
C10_NotationsDesugared ==
    (shape.kind = "range" /\ Tagged /\ cell # NoCell) =>
        result = <<"=">> \o
            CASE shape.wrap = "none" -> RangeExpected(shape)
              [] shape.wrap = "call" -> Call(SUM, RangeExpected(shape))
              [] shape.wrap \in {"lambda", "both"} ->
                   Call(XLFN \o S_LAMBDA,
                        Args(<<XLPM \o X, RangeExpected(shape)>>))
                   \o Call(<<>>, ONE)
                   \o (IF shape.wrap = "both"
                       THEN <<"+">> \o RangeExpected(shape) ELSE <<>>)

\* the sheet-qualified range of a shape as it is to come out: the call of
\* the notation's function around the range with the sheet name on both
\* endpoints
SheetExpected(sh) ==
    Call(XLFN \o NotationFunction(sh.notation),
         sh.sheet \o <<"!">> \o sh.left \o COLON
         \o sh.sheet \o <<"!">> \o sh.right)

\* C11: a special range notation whose left endpoint is sheet-qualified,
\* S!X.:.Y (likewise S!X:.Y and S!X.:Y), comes out of _add_function_prefix
\* as the call _xlfn._TRO_ALL(S!X:S!Y) with the sheet name on both endpoints
\* inside the call and nothing of the sheet name left outside the call.
C11_SheetQualified ==
    (shape.kind = "sheet" /\ shape.notation # COLON /\ Tagged
     /\ cell = NoCell) =>
        result = <<"=">> \o (IF shape.wrap = "call"
                             THEN Call(SUM, SheetExpected(shape))
                             ELSE SheetExpected(shape))

\* C17: _add_function_prefix terminates and returns a text for every input,
\* a malformed one included (a LAMBDA with no argument or one argument, an
\* empty parameter or variable name, parentheses or quotes not closed): no
\* call runs for ever.
C17_Terminates == status # "hung"

\* the positions of the calls  name(  in a text
CallSites(t, name) == {i \in 1..Len(t) : MatchAt(t, i, name \o <<"(">>)}

\* C18: add_function_prefix of openpyxl.cell.formula_prefix rewrites every
\* call TRIMRANGE( to _xlfn.TRIMRANGE(, at the top level and nested in
\* another call, as it does for the other registry functions: in the text
\* it returns every TRIMRANGE( is preceded by '_xlfn.'.
C18_TrimrangePrefixed ==
    (shape.kind = "trimrange" /\ status = "returned" /\ calls = 1) =>
        \A i \in CallSites(result, TRIMRANGE) :
            MatchAt(result, i - Len(XLFN), XLFN)

\* C16: masking is lossless: for a text f with any number of string and
\* array literals in any order,
\* _restore_string_literals(*_protect_string_literals(f)) is f.
C16_RoundTrip == status = "restored" => result = formula

\* the element written by the last call of the writer
LastElement == xf[Len(xf)]

\* the last call of the writer wrote formula cell `cell`
FormulaWritten == status = "written" /\ cell.data_type = "f"

C13_ArrayIffLambdaOrLet ==
    (FormulaWritten /\ ~cell._is_spill /\ cell._value.kind = "str") =>
        LastElement.f[1].attrib =
            IF \/ Contains(LastElement.f[1].text[1], XLFN \o S_LAMBDA)
               \/ Contains(LastElement.f[1].text[1], XLFN_LET)
            THEN [t |-> "array", ref |-> cell.coordinate]
            ELSE NoAttributes

\* C14: on each path of the writer for a formula string (spilling,
\* LAMBDA/LET, plain) the text of the formula element is the fully rewritten
\* formula with its leading '=' removed, once.
C14_TextWithoutEq ==
    (FormulaWritten /\ cell._value.kind = "str") =>
        LastElement.f[1].text =
            << WithoutEq(_add_function_prefix(cell._value.text, order)) >>

\* C15: an ArrayFormula or DataTableFormula value goes past the rewriting:
\* for an ArrayFormula the formula element has the object's own attributes
\* and its stored text without the leading '=', no prefix inserted; for a
\* DataTableFormula it has the object's own attributes and no text.
C15_FormulaObjectsBypass ==
    (FormulaWritten /\ cell._value.kind \in {"ArrayFormula",
                                             "DataTableFormula"}) =>
        LastElement.f =
            << [attrib |-> cell._value.attrib,
                text   |-> IF cell._value.kind = "ArrayFormula"
                           THEN << WithoutEq(cell._value.text) >>
                           ELSE <<>>] >>

\* C19: a call of the writer on a date cell whose value has a tzinfo raises
\* TypeError, whatever the iso-date mode; the call has written nothing of
\* the cell's element and has appended nothing to the hyperlinks of the
\* sheet, even when the cell has a hyperlink.
C19_TimezoneRaises ==
    [][(cell'.data_type = "d" /\ cell'._value.tzinfo) =>
          /\ status' = "TypeError"
          /\ xf' = xf
          /\ _hyperlinks' = _hyperlinks]_vars

C19_Witness ==
    /\ status = "TypeError"
    /\ cell.data_type = "d" /\ cell._value.tzinfo
    /\ cell.hyperlink = H1
    /\ worksheet.iso_dates
    /\ Len(xf) = 1
    /\ _hyperlinks = <<H0, H2>>

RECURSIVE WrittenHyperlinks(_, _)
\* the hyperlinks of the cells of the sheet that the elements were written
\* for, one for each element of a cell that has a hyperlink, in the order
\* of the elements
WrittenHyperlinks(elements, cells) ==
    IF Len(elements) = 0 THEN <<>>
    ELSE LET c == CHOOSE d \in {cells[k] : k \in 1..Len(cells)} :
                      d.coordinate = Head(elements).r
         IN  (IF c.hyperlink # <<>> THEN <<c.hyperlink>> ELSE <<>>)
             \o WrittenHyperlinks(Tail(elements), cells)

\* C20: the hyperlinks of the sheet are only appended to: after any
\* sequence of calls of the writer the list is what it held at the start,
\* followed by the hyperlinks of the written cells that have one, in the
\* order of the writes, one entry for each write (a cell written twice
\* gives two entries).
C20_HyperlinksAppendOnly ==
    status # "hung" =>
        _hyperlinks = worksheet._hyperlinks
                          \o WrittenHyperlinks(xf, worksheet.cells)

C20_Witness ==
    /\ Len(xf) = 2
    /\ xf[1].r = COORDINATE /\ xf[2].r = COORDINATE
    /\ _hyperlinks = <<H0, H1, H1>>

\* C21: a variable reference is never rewritten twice: for a formula that
\* holds neither '_xlpm.' nor '_xlop.', the output of _add_function_prefix
\* holds neither '_xlpm._xlpm.' nor '_xlop._xlpm.', also when an inner
\* LAMBDA or LET binds the name that an enclosing LAMBDA or LET binds.
C21_NeverRewrittenTwice ==
    (Tagged /\ ~Contains(formula, XLPM) /\ ~Contains(formula, XLOP)) =>
        /\ ~Contains(result, XLPM \o XLPM)
        /\ ~Contains(result, XLOP \o XLPM)

\* C22: a function name is never tagged twice within one run: for a formula
\* that holds no '_xlfn.', the output of _add_function_prefix never holds
\* '_xlfn._xlfn.'; a registry function called in the body of a LAMBDA that
\* is nested in the body of another LAMBDA ends up with one '_xlfn.'.
C22_NeverTaggedTwice ==
    (Tagged /\ ~Contains(formula, XLFN)) => ~Contains(result, XLFN \o XLFN)

\* the positions outside string literals where name stands as a whole word
\* that is not followed by '('
BareNames(t, name) ==
    {i \in 1..Len(t) :
        /\ MatchAt(t, i, name)
        /\ Boundary(t, i) /\ Boundary(t, i + Len(name))
        /\ ~MatchAt(t, i + Len(name), <<"(">>)
        /\ ~InLiteral(t, i)}

\* C23: the tagging of function names rewrites only the call sites NAME(:
\* an occurrence of a registry name that is not immediately followed by
\* '(' (the end of a range of whole columns, a defined name, the name of a
\* LET variable) is left as it is by _add_function_prefix, so that in the
\* output no such occurrence has '_xlfn.' or '_xlws.' before it.
C23_OnlyCallSites ==
    (Tagged /\ \A m \in Markers : ~Contains(formula, m)) =>
        \A name \in EXCEL_NEW_FUNCTIONS :
            \A i \in BareNames(result, name) :
                ~PrecededBy(result, i, XLFN) /\ ~PrecededBy(result, i, XLWS)

\* C24: a LAMBDA with exactly one top-level argument e is a body with no
\* parameter: it comes out of _add_function_prefix as _xlfn.LAMBDA(e'), the
\* keyword prefixed, no name of e in its '_xlpm.' form, e' being e with its
\* registry calls tagged, and no comma added.
C24_BodyOnlyLambda ==
    (shape.kind = "malformed" /\ shape.head = S_LAMBDA /\ shape.closed
     /\ shape.args \in {<<X>>, <<Call(SORT, A1)>>}
     /\ status # "input" /\ calls <= 1 /\ cell = NoCell) =>
        /\ status = "returned"
        /\ result = <<"=">> \o Call(XLFN \o S_LAMBDA,
                        IF shape.args = <<X>> THEN X
                        ELSE Call(XLFN \o XLWS \o SORT, A1))

\* a malformed shape that is a closed LET with fewer than 3 arguments or an
\* even number of arguments
MalformedLetShape ==
    /\ shape.kind = "malformed" /\ shape.head = S_LET /\ shape.closed
    /\ (Len(shape.args) < 3 \/ Len(shape.args) % 2 = 0)

\* an argument with its call of SORT tagged
TaggedCall(arg) ==
    IF StartsWith(arg, SORT \o <<"(">>) THEN XLFN \o XLWS \o arg ELSE arg

InnerLetExpected(sh) ==
    Call(XLFN \o S_LET,
         Args(<<XLPM \o sh.name,
                IF sh.place = "final" \/ sh.name = X THEN XLPM \o X ELSE X,
                IF sh.call = NONE THEN XLPM \o sh.name
                ELSE Call(CompatPrefix(sh.call) \o sh.call,
                          XLPM \o sh.name)>>))

\* C26: nested LETs are handled: when a LET stands in the final expression
\* or in a definition of another LET, _process_let_variables rewrites both:
\* the declaration of the inner LET's variable and its references inside
\* the inner LET are in the '_xlpm.' form, and so are the references to the
\* outer LET's variable inside the inner LET.
C26_NestedLet ==
    (shape.kind = "scope" /\ shape.outer = S_LET /\ shape.inner = S_LET
     /\ Tagged) =>
        result = <<"=">> \o Call(XLFN \o S_LET,
                     Args(IF shape.place = "final"
                          THEN <<XLPM \o X, ONE, InnerLetExpected(shape)>>
                          ELSE <<XLPM \o X, InnerLetExpected(shape),
                                 XLPM \o X>>))

\* C27: every call of GROUPBY and PIVOTBY in a formula has its aggregate
\* argument marked: when the aggregate argument of the outer call gets
\* '_xleta.', so does that of a call of GROUPBY nested in an earlier
\* argument of the outer call; no nested GROUPBY(B,C,SUM) is left with its
\* SUM unmarked.
C27_NestedAggregatesMarked ==
    (shape.kind = "aggregate" /\ shape.target = SUM /\ Tagged
     /\ Contains(result, <<",">> \o XLETA \o SUM \o <<")">>)) =>
        ~Contains(result, Call(GROUPBY, Args(<<B, C, SUM>>)))

\* C28: every scan for the closing parenthesis of a call respects string
\* literals: parentheses inside a double-quoted literal are not counted, so
\* a LET whose definition is a literal, whatever the literal holds, is
\* processed as the three-argument LET it is, LET(x,")",x&")") included:
\* its variable is declared as '_xlpm.x' and the reference to it in the
\* final expression is in the '_xlpm.' form.
C28_SpansRespectLiterals ==
    (shape.kind = "string" /\ shape.wrap = "let" /\ Tagged) =>
        /\ StartsWith(result, <<"=">> \o XLFN \o S_LET \o <<"(">> \o XLPM
                              \o X \o <<",", "\"">>)
        /\ Contains(result, <<"\"", ",">> \o XLPM \o X \o <<"&", "\"">>)

\* the token that _protect_string_literals generated with number n: the
\* literal it stands for was put at the front of the list when the list
\* held n literals
GeneratedToken(n) ==
    IF Head(literals[Len(literals) - n]) = "{"
    THEN ArrayPlaceholder(n) ELSE StringPlaceholder(n)

\* C29: a token introduced by _protect_string_literals never collides with
\* text that was there before: every generated token differs from every
\* substring of the input, also when the input holds text of the form
\* __STRING_n__ outside or inside a literal, and _restore_string_literals
\* changes only the generated tokens, so that a name of that form at the
\* start of the input still stands there after the restoring.
C29_TokensDoNotCollide ==
    /\ status = "protected" =>
          \A n \in 0..(Len(literals) - 1) :
              ~Contains(formula, GeneratedToken(n))
    /\ (status = "restored" /\ shape.operands[1] = StringPlaceholder(0)) =>
          StartsWith(result, <<"=">> \o StringPlaceholder(0))

\* C30: the output of _add_function_prefix is determined by the formula
\* alone: every iteration order of the set EXCEL_NEW_FUNCTIONS gives the
\* same output, also for a formula with two registry names of which one
\* is the beginning of the other (SORT and SORTBY).
C30_OrderIndependent ==
    Tagged => \A other \in Orders(formula) :
                  _add_function_prefix(formula, other) = result

====
